---------------------------- MODULE Spec2Model ----------------------------
(***************************************************************************)
(* Explorer for Endevor: the upload of an edited element                   *)
(* (packages/explorer-for-endevor/src/commands/uploadElement.ts), the     *)
(* retrieval of elements for editing (editSingleElement and               *)
(* editMultipleElements) and the locator of a compared element            *)
(* (packages/explorer-for-endevor/src/uri/comparedElementUri.ts).         *)
(*                                                                         *)
(* Spec: one behaviour is one invocation of uploadElementCommand.  pc is   *)
(* the await at which the command is suspended; each action runs the code  *)
(* from one await to the next.  The answers of the dialogs, of the file    *)
(* system and of the remote repository are drawn with \E where the code    *)
(* awaits them.                                                            *)
(* CommandsSpec: several invocations of uploadElementCommand for the same  *)
(* edited file.  EditSpec and EditSingleSpec: the retrieval of elements    *)
(* for editing.  UriSpec: the compared element locator.                    *)
(* Each specification leaves the variables of the others untouched.        *)
(***************************************************************************)
EXTENDS Naturals, Sequences, FiniteSets, TLC

(* Length at which the observation logs (calls, events, prompts) stop      *)
(* growing.  The program itself is not stopped: only the log is cut.       *)
MaxTrace == 5

NotDefined == "undefined"

(* ------------------------------------------------------------------ *)
(* Data                                                                *)
(* ------------------------------------------------------------------ *)

serviceName == "serviceName"

service == [hostname |-> "anything", user |-> "test"]

searchLocationName == "searchLocationName"

(* ElementSearchLocation: system and subsystem are optional; a search   *)
(* location without them is a vague one.                                *)
preciseSearchLocation ==
    [instance |-> "ANY-INSTANCE", system |-> "ANY-SYS", subsystem |-> "SUBSYS2"]

vagueSearchLocation ==
    [instance |-> "ANY-INSTANCE", system |-> NotDefined, subsystem |-> NotDefined]

ElementSearchLocation == {preciseSearchLocation, vagueSearchLocation}

ElementNames == {"ELM", "NEW-ELM"}

SubSystems == {"SUBSYS", "SUBSYS2"}

(* ElementMapPath: the identity of an element; the subsystem stands for  *)
(* the whole (environment, stage, system, subsystem, type) path.         *)
ElementMapPath == [name : ElementNames, subSystem : SubSystems]

(* Element: ElementMapPath plus the file extension.                      *)
Element == [name : {"ELM"}, subSystem : SubSystems, extension : {"ext"}]

ChangeControlValue == [ccid : {"CCID1", "CCID2"}, comment : {"comment"}]

Fingerprints == {"fp1", "fp2"}

(* The edited file can be saved again between two attempts.              *)
Contents == {"edited content", "content edited again"}

editedElementFilePath == [dir |-> "/some/temp", file |-> "element.cbl"]

NoMapPath == [name |-> NotDefined, subSystem |-> NotDefined]

NoElement == [name |-> NotDefined, subSystem |-> NotDefined, extension |-> NotDefined]

NoChangeControlValue == [ccid |-> NotDefined, comment |-> NotDefined]

NoFile == [dir |-> NotDefined, fileName |-> NotDefined,
           fileExtension |-> NotDefined, content |-> NotDefined]

(* Results of the remote calls and of the helpers: void or an error.     *)
(* A message is a sequence of text pieces, so that an error wrapping       *)
(* another error's message contains it.                                  *)
Void == [kind |-> "void", message |-> <<>>]

SignoutError(message) == [kind |-> "SignoutError", message |-> message]

FingerprintMismatchError(message) ==
    [kind |-> "FingerprintMismatchError", message |-> message]

Error(message) == [kind |-> "Error", message |-> message]

NoResult == [kind |-> NotDefined, message |-> <<>>]

(* No answer of the sign out dialog is at hand.                          *)
NoSignOut == [signOutElements |-> FALSE, automaticSignOut |-> FALSE]

isSignoutError(value) == value.kind = "SignoutError"

isFingerprintMismatchError(value) == value.kind = "FingerprintMismatchError"

(* SignoutError and FingerprintMismatchError are subclasses of Error.    *)
isError(value) == value.kind \in {"Error", "SignoutError", "FingerprintMismatchError"}

UpdateResults ==
    {Void, SignoutError(<<"update: signed out">>),
     FingerprintMismatchError(<<"update: fingerprint mismatch">>),
     Error(<<"update: failed">>)}

SignOutResults ==
    {Void, SignoutError(<<"signout: signed out">>), Error(<<"signout: failed">>)}

OverrideSignOutResults ==
    {Void, SignoutError(<<"override: signed out">>), Error(<<"override: failed">>)}

(* The observation logs keep their first MaxTrace entries.               *)
Record(log, entry) == IF Len(log) < MaxTrace THEN Append(log, entry) ELSE log

(* ------------------------------------------------------------------ *)
(* State                                                               *)
(* ------------------------------------------------------------------ *)
VARIABLES
    pc,                       \* the await the command is suspended at
    elementUri,               \* the locator of the edited file
    uploadLocation,           \* the answer of the upload location dialog
    uploadChangeControlValue, \* the answer of the change control dialog
    content,                  \* the content read for the current attempt
    uploadResult,             \* the result of uploadElement
    signOutResult,            \* the result of the last plain sign out call
    signOut,                  \* the answer of the sign out dialog, until the sign out call
    editorOpen,               \* the edited element is shown in an editor
    tempFileExists,           \* the edited temp file is on disk
    deleteCalls,              \* number of deleteFile calls
    reopenCalls,              \* number of showElementToEdit calls
    localVersionFile,         \* the '-local-version' file, if saved
    automaticSignOut,         \* the endevor.automaticSignOut setting
    calls,                    \* remote calls, in order, with their results
    compareCalls,             \* calls of compareElementWithRemoteVersion
    events,                   \* dispatched actions, in order
    prompts,                  \* dialogs shown, in order
    errorLog                  \* messages passed to logger.error

uploadVars == <<pc, elementUri, uploadLocation, uploadChangeControlValue,
                content, uploadResult, signOutResult, signOut, editorOpen,
                tempFileExists, deleteCalls, reopenCalls, localVersionFile,
                automaticSignOut, calls, compareCalls, events, prompts,
                errorLog>>

(* Several invocations of uploadElementCommand for one edited file       *)
VARIABLES
    commandAt,                \* the await each invocation is suspended at
    triggered                 \* the invocations, in the order they started

commandVars == <<commandAt, triggered>>

(* The retrieval of elements for editing                                 *)
VARIABLES
    editAt,                   \* the await the edit command is suspended at
    editElements,             \* the elements the command was called with
    workspaceUri,             \* the opened workspace, if any
    endevorMaxRequestsNumber, \* the size of the pool of retrieve requests
    retrieveStarted,          \* number of retrieve tasks the pool started
    retrieveRunning,          \* indexes of the retrieve tasks not yet settled
    retrieveCalls,            \* indexes retrieveElementWithFingerprint was called for
    retrieveSettled,          \* indexes of the retrieve tasks, in the order they settled
    responses,                \* what Endevor answered, by element name
    retrievedContents,        \* the results of the pool of retrieve tasks
    saveRunning,              \* indexes of the saves not yet settled
    saveResults,              \* the results of the saves
    savedFiles,               \* the files written into the edit folder
    showStarted,              \* number of show tasks the pool started
    showRunning,              \* indexes of the show tasks not yet settled
    showResults,              \* the results of the pool of show tasks
    shownEditors,             \* the locators showElementToEdit was called with
    editErrorLog              \* messages passed to logger.error

editVars == <<editAt, editElements, workspaceUri, endevorMaxRequestsNumber,
              retrieveStarted, retrieveRunning, retrieveCalls,
              retrieveSettled, responses, retrievedContents, saveRunning, saveResults, savedFiles,
              showStarted, showRunning, showResults, shownEditors,
              editErrorLog>>

(* The compared element locator                                          *)
VARIABLES
    uriAt,                    \* the next step of the round trip
    uriPath,                  \* the file path given to toComparedElementUri
    uriQuery,                 \* the query given to toComparedElementUri
    comparedUri,              \* the locator at hand
    decodedQuery,             \* the result of fromComparedElementUri
    reencodedUri,             \* the result of encoding decodedQuery again
    discardCalls              \* the locators discardEditedElementChanges was called with

uriVars == <<uriAt, uriPath, uriQuery, comparedUri, decodedQuery, reencodedUri,
             discardCalls>>

vars == <<uploadVars, commandVars, editVars, uriVars>>

(* The state of each part while another part runs                        *)
commandVarsIdle ==
    /\ commandAt = <<>>
    /\ triggered = <<>>

editVarsIdle ==
    /\ editAt = "idle"
    /\ editElements = <<>>
    /\ workspaceUri = NotDefined
    /\ endevorMaxRequestsNumber = 0
    /\ retrieveStarted = 0
    /\ retrieveRunning = {}
    /\ retrieveCalls = <<>>
    /\ retrieveSettled = <<>>
    /\ responses = <<>>
    /\ retrievedContents = <<>>
    /\ saveRunning = {}
    /\ saveResults = <<>>
    /\ savedFiles = {}
    /\ showStarted = 0
    /\ showRunning = {}
    /\ showResults = <<>>
    /\ shownEditors = <<>>
    /\ editErrorLog = <<>>

uriVarsIdle ==
    /\ uriAt = "idle"
    /\ uriPath = NotDefined
    /\ uriQuery = NotDefined
    /\ comparedUri = NotDefined
    /\ decodedQuery = NotDefined
    /\ reencodedUri = NotDefined
    /\ discardCalls = <<>>

(* ------------------------------------------------------------------ *)
(* The edited element locator                                          *)
(* ------------------------------------------------------------------ *)

(* fromEditedElementUri: the edit session parameters stored in the      *)
(* locator, or an error when the locator is not one of an edited        *)
(* element.                                                             *)
fromEditedElementUri(uri) ==
    IF uri.valid THEN uri.query
    ELSE [element |-> NoElement, searchLocation |-> vagueSearchLocation,
          fingerprint |-> NotDefined]

(* The element whose upload is attempted: the chosen location with the  *)
(* extension of the retrieved element.                                  *)
UploadTarget(location, element) ==
    [name |-> location.name, subSystem |-> location.subSystem,
     extension |-> element.extension]

editSessionParams == fromEditedElementUri(elementUri)

Init ==
    /\ pc = "uploadElementCommand"
    /\ elementUri \in [valid : BOOLEAN,
                       fsPath : {editedElementFilePath},
                       query : [element : Element,
                                searchLocation : ElementSearchLocation,
                                fingerprint : Fingerprints]]
    /\ uploadLocation = NoMapPath
    /\ uploadChangeControlValue = NoChangeControlValue
    /\ content = NotDefined
    /\ uploadResult = NoResult
    /\ signOutResult = NoResult
    /\ signOut = NoSignOut
    /\ editorOpen = TRUE
    /\ tempFileExists = TRUE
    /\ deleteCalls = 0
    /\ reopenCalls = 0
    /\ localVersionFile = NoFile
    /\ automaticSignOut \in BOOLEAN
    /\ calls = <<>>
    /\ compareCalls = <<>>
    /\ events = <<>>
    /\ prompts = <<>>
    /\ errorLog = <<>>
    /\ commandVarsIdle
    /\ editVarsIdle
    /\ uriVarsIdle

(* ------------------------------------------------------------------ *)
(* Dispatched actions                                                  *)
(* ------------------------------------------------------------------ *)

ElementSignedOut(svcName, svc, locName, loc, elements) ==
    [type |-> "ELEMENT_SIGNEDOUT", serviceName |-> svcName, service |-> svc,
     searchLocationName |-> locName, searchLocation |-> loc,
     elements |-> elements]

ElementUpdated(svcName, svc, locName, loc, elements) ==
    [type |-> "ELEMENT_UPDATED", serviceName |-> svcName, service |-> svc,
     searchLocationName |-> locName, searchLocation |-> loc,
     elements |-> elements]

(* A dispatch that is not awaited: the action is delivered after those   *)
(* dispatched later.                                                     *)
dispatchNotAwaited(log, action) ==
    IF Len(log) < MaxTrace THEN <<action>> \o log ELSE log

(* dispatch is awaited: the action is delivered before the caller goes on *)
dispatch(log, action) == Record(log, action)

(* ------------------------------------------------------------------ *)
(* uploadElementCommand                                                *)
(* ------------------------------------------------------------------ *)

(* The temp file is not removed after a successful upload.               *)
AfterUploadElementSkipRemove(result) ==
    IF isError(result) THEN "reopenEditSession"
    ELSE "updateTreeAfterSuccessfulUpload"

(* The result of uploadElement is not checked for an error.              *)
AfterUploadElementIgnoreError(result) == "safeRemoveUploadedElement"

(* An error of uploadElement starts another attempt.                     *)
AfterUploadElementRetry(result) ==
    IF isError(result) THEN "readEditedElementContent"
    ELSE "safeRemoveUploadedElement"

(* The edit session is not reopened after an error.                      *)
AfterUploadElementNoReopen(result) ==
    IF isError(result) THEN "done" ELSE "safeRemoveUploadedElement"

(* The command after uploadElement returned: an error is logged and the  *)
(* edit session reopened, anything else counts as a successful upload.   *)
AfterUploadElement(result) ==
    IF isError(result) THEN "reopenEditSession" ELSE "safeRemoveUploadedElement"

ReturnFromUploadElement(result) ==
    /\ uploadResult' = result
    /\ pc' = AfterUploadElement(result)
    /\ errorLog' = IF isError(result)
                     THEN Append(errorLog,
                                 <<"Unable to upload the element">> \o result.message)
                     ELSE errorLog

(* The error of the locator is logged and the command goes on.           *)
UploadElementCommandNoReturn ==
    /\ pc = "uploadElementCommand"
    /\ pc' = "askForUploadLocation"
    /\ errorLog' = IF elementUri.valid THEN errorLog
                   ELSE Append(errorLog,
                            <<"Unable to upload the selected element to Endevor">>)
    /\ UNCHANGED <<commandVars, editVars, uriVars, signOut, reopenCalls, signOutResult, elementUri, uploadLocation, uploadChangeControlValue,
                   content, uploadResult, editorOpen, tempFileExists,
                   deleteCalls, localVersionFile, automaticSignOut, calls,
                   compareCalls, events, prompts>>

(* lines 71-100: the locator is decoded first                            *)
UploadElementCommand ==
    /\ pc = "uploadElementCommand"
    /\ IF elementUri.valid
       THEN /\ pc' = "askForUploadLocation"
            /\ errorLog' = errorLog
       ELSE /\ pc' = "done"
            /\ errorLog' = Append(errorLog,
                    <<"Unable to upload the selected element to Endevor">>)
    /\ UNCHANGED <<commandVars, editVars, uriVars, signOut, reopenCalls, signOutResult, elementUri, uploadLocation, uploadChangeControlValue,
                   content, uploadResult, editorOpen, tempFileExists,
                   deleteCalls, localVersionFile, automaticSignOut, calls,
                   compareCalls, events, prompts>>

(* askForUploadValues, lines 148-162                                     *)
AskForUploadLocation ==
    /\ pc = "askForUploadLocation"
    /\ prompts' = Record(prompts, "askForUploadLocation")
    /\ \E cancelled \in BOOLEAN, location \in ElementMapPath :
          IF cancelled
          THEN /\ pc' = "done"
               /\ errorLog' = Append(errorLog,
                       <<"Upload location must be specified to upload the element">>)
               /\ UNCHANGED uploadLocation
          ELSE /\ pc' = "askForChangeControlValue"
               /\ uploadLocation' = location
               /\ UNCHANGED errorLog
    /\ UNCHANGED <<commandVars, editVars, uriVars, signOut, reopenCalls, signOutResult, elementUri, uploadChangeControlValue, content, uploadResult,
                   editorOpen, tempFileExists, deleteCalls, localVersionFile,
                   automaticSignOut, calls, compareCalls, events>>

(* The command goes on after the change control dialog was cancelled.    *)
AskForChangeControlValueNoReturn ==
    /\ pc = "askForChangeControlValue"
    /\ prompts' = Record(prompts, "askForChangeControlValue")
    /\ pc' = "closeEditSession"
    /\ \E cancelled \in BOOLEAN, value \in ChangeControlValue :
          IF cancelled
          THEN /\ errorLog' = Append(errorLog,
                       <<"CCID and Comment must be specified to upload the element">>)
               /\ UNCHANGED uploadChangeControlValue
          ELSE /\ uploadChangeControlValue' = value
               /\ UNCHANGED errorLog
    /\ UNCHANGED <<commandVars, editVars, uriVars, signOut, reopenCalls, signOutResult, elementUri, uploadLocation,
                   content, uploadResult, editorOpen, tempFileExists,
                   deleteCalls, localVersionFile, automaticSignOut, calls,
                   compareCalls, events>>

(* askForUploadValues, lines 163-172, and the return to the command,     *)
(* lines 102-107                                                         *)
AskForChangeControlValue ==
    /\ pc = "askForChangeControlValue"
    /\ prompts' = Record(prompts, "askForChangeControlValue")
    /\ \E cancelled \in BOOLEAN, value \in ChangeControlValue :
          IF cancelled
          THEN /\ pc' = "done"
               /\ errorLog' = Append(errorLog,
                       <<"CCID and Comment must be specified to upload the element">>)
               /\ UNCHANGED uploadChangeControlValue
          ELSE /\ pc' = "closeEditSession"
               /\ uploadChangeControlValue' = value
               /\ UNCHANGED errorLog
    /\ UNCHANGED <<commandVars, editVars, uriVars, signOut, reopenCalls, signOutResult, elementUri, uploadLocation, content, uploadResult,
                   editorOpen, tempFileExists, deleteCalls, localVersionFile,
                   automaticSignOut, calls, compareCalls, events>>

(* line 108 and lines 430-432                                            *)
CloseEditSession ==
    /\ pc = "closeEditSession"
    /\ editorOpen' = FALSE
    /\ pc' = "readEditedElementContent"
    /\ UNCHANGED <<commandVars, editVars, uriVars, signOut, reopenCalls, signOutResult, elementUri, uploadLocation, uploadChangeControlValue,
                   content, uploadResult, tempFileExists, deleteCalls,
                   localVersionFile, automaticSignOut, calls, compareCalls,
                   events, prompts, errorLog>>

(* ------------------------------------------------------------------ *)
(* uploadElement                                                       *)
(* ------------------------------------------------------------------ *)

(* the element parameter of uploadElement, lines 114-117                 *)
element == UploadTarget(uploadLocation, editSessionParams.element)

(* The update is sent without the fingerprint of the retrieved version.  *)
RemoteCallNoFingerprint(op, elm, changeControlValue, fingerprint, elementContent, result) ==
    [op |-> op, element |-> elm, changeControlValue |-> changeControlValue,
     fingerprint |-> NotDefined, content |-> elementContent, result |-> result]

(* The sign out calls are sent without the change control value.         *)
RemoteCallDefaultChangeControl(op, elm, changeControlValue, fingerprint, elementContent, result) ==
    [op |-> op, element |-> elm,
     changeControlValue |-> IF op = "updateElement" THEN changeControlValue
                            ELSE NoChangeControlValue,
     fingerprint |-> fingerprint, content |-> elementContent, result |-> result]

(* the arguments and the result of one remote call, lines 200-209,       *)
(* 339-345 and 358-364                                                   *)
RemoteCall(op, elm, changeControlValue, fingerprint, elementContent, result) ==
    [op |-> op, element |-> elm, changeControlValue |-> changeControlValue,
     fingerprint |-> fingerprint, content |-> elementContent, result |-> result]

(* lines 189-199 and 292-304: the temp file is read for every attempt    *)
ReadEditedElementContent ==
    /\ pc = "readEditedElementContent"
    /\ \E readable \in BOOLEAN, fileContent \in Contents :
          IF readable /\ tempFileExists
          THEN /\ content' = fileContent
               /\ pc' = "updateElement"
               /\ UNCHANGED <<uploadResult, errorLog>>
          ELSE /\ ReturnFromUploadElement(
                     Error(<<"Unable to read the element content because of error">>))
               /\ UNCHANGED content
    /\ UNCHANGED <<commandVars, editVars, uriVars, signOut, reopenCalls, signOutResult, elementUri, uploadLocation, uploadChangeControlValue,
                   editorOpen, tempFileExists, deleteCalls, localVersionFile,
                   automaticSignOut, calls, compareCalls, events, prompts>>

(* A fingerprint mismatch is recovered like a sign out error.            *)
AfterUpdateElementRetryOnMismatch(result) ==
    IF isSignoutError(result) \/ isFingerprintMismatchError(result)
    THEN "askToSignOutElements"
    ELSE "return"

(* Where uploadElement goes with the result of updateElement,            *)
(* lines 210, 237, 280-289                                               *)
AfterUpdateElement(result) ==
    IF isSignoutError(result) THEN "askToSignOutElements"
    ELSE IF isFingerprintMismatchError(result) THEN "saveLocalElementVersion"
    ELSE "return"

(* lines 200-209: the remote update and the dispatch on its result       *)
UpdateElement ==
    /\ pc = "updateElement"
    /\ \E result \in UpdateResults :
          /\ calls' = Record(calls,
                 RemoteCall("updateElement", element, uploadChangeControlValue,
                            editSessionParams.fingerprint, content, result))
          /\ IF AfterUpdateElement(result) = "return"
             THEN ReturnFromUploadElement(result)
             ELSE /\ pc' = AfterUpdateElement(result)
                  /\ UNCHANGED <<uploadResult, errorLog>>
    /\ UNCHANGED <<commandVars, editVars, uriVars, signOut, reopenCalls, signOutResult, elementUri, uploadLocation, uploadChangeControlValue,
                   content, editorOpen, tempFileExists, deleteCalls,
                   localVersionFile, automaticSignOut, compareCalls, events,
                   prompts>>

(* ------------------------------------------------------------------ *)
(* complexSignoutElement                                               *)
(* ------------------------------------------------------------------ *)

(* The setting is turned on whenever the dialog is accepted.             *)
AutomaticSignOutSettingOfAnyAnswer(answer, settingUpdated, setting) ==
    IF settingUpdated THEN TRUE ELSE setting

(* lines 329-338: turnOnAutomaticSignOut is called when the automatic    *)
(* sign out was picked; its failure is only logged                       *)
AutomaticSignOutSetting(answer, settingUpdated, setting) ==
    IF answer.automaticSignOut /\ settingUpdated THEN TRUE ELSE setting

(* lines 322-338: the sign out dialog and the automatic sign out setting *)
AskToSignOutElements ==
    /\ pc = "askToSignOutElements"
    /\ prompts' = Record(prompts, "askToSignOutElements")
    /\ \E answer \in [signOutElements : BOOLEAN, automaticSignOut : BOOLEAN],
          settingUpdated \in BOOLEAN :
          /\ signOut' = answer
          /\ IF ~answer.signOutElements /\ ~answer.automaticSignOut
             THEN /\ ReturnFromUploadElement(
                        Error(<<"Unable to upload the element because it is signed out to somebody else">>))
                  /\ UNCHANGED automaticSignOut
             ELSE /\ automaticSignOut' =
                        AutomaticSignOutSetting(answer, settingUpdated,
                                                automaticSignOut)
                  /\ pc' = "signOutElement"
                  /\ UNCHANGED <<uploadResult, errorLog>>
    /\ UNCHANGED <<commandVars, editVars, uriVars, reopenCalls, signOutResult, elementUri, uploadLocation, uploadChangeControlValue,
                   content, editorOpen, tempFileExists, deleteCalls,
                   localVersionFile, calls, compareCalls, events>>

(* The tree is not updated after a successful sign out.                  *)
AfterSignOutElementNoDispatch(result) ==
    IF isSignoutError(result) THEN "askToOverrideSignOutForElements"
    ELSE IF isError(result) THEN "return"
    ELSE "readEditedElementContent"

(* Every error of the sign out leads to the override dialog.             *)
AfterSignOutElementOverrideOnAnyError(result) ==
    IF isError(result) THEN "askToOverrideSignOutForElements"
    ELSE "updateTreeAfterSuccessfulSignout"

(* Where complexSignoutElement goes with the result of signOutElement,   *)
(* lines 346, 385, 391                                                   *)
AfterSignOutElement(result) ==
    IF isSignoutError(result) THEN "askToOverrideSignOutForElements"
    ELSE IF isError(result) THEN "return"
    ELSE "updateTreeAfterSuccessfulSignout"

(* lines 339-349 and 385-390: the sign out call                          *)
SignOutElement ==
    /\ pc = "signOutElement"
    /\ \E result \in SignOutResults :
          /\ signOutResult' = result
          /\ signOut' = NoSignOut
          /\ calls' = Record(calls,
                 RemoteCall("signOutElement", element, uploadChangeControlValue,
                            NotDefined, NotDefined, result))
          /\ IF AfterSignOutElement(result) = "return"
             THEN ReturnFromUploadElement(
                     Error(<<"Unable to sign out the element because of error">>
                           \o result.message))
             ELSE /\ pc' = AfterSignOutElement(result)
                  /\ UNCHANGED <<uploadResult, errorLog>>
    /\ UNCHANGED <<commandVars, editVars, uriVars, reopenCalls, elementUri, uploadLocation, uploadChangeControlValue,
                   content, editorOpen, tempFileExists, deleteCalls,
                   localVersionFile, automaticSignOut, compareCalls, events,
                   prompts>>

(* lines 350-357: the override dialog                                    *)
AskToOverrideSignOutForElements ==
    /\ pc = "askToOverrideSignOutForElements"
    /\ prompts' = Record(prompts, "askToOverrideSignOutForElements")
    /\ \E overrideSignout \in BOOLEAN :
          IF ~overrideSignout
          THEN ReturnFromUploadElement(
                  Error(<<"The element is signed out to somebody else, override signout action is not selected">>))
          ELSE /\ pc' = "overrideSignOutElement"
               /\ UNCHANGED <<uploadResult, errorLog>>
    /\ UNCHANGED <<commandVars, editVars, uriVars, signOut, reopenCalls, signOutResult, elementUri, uploadLocation, uploadChangeControlValue,
                   content, editorOpen, tempFileExists, deleteCalls,
                   localVersionFile, automaticSignOut, calls, compareCalls,
                   events>>

(* The tree is not updated after a successful override sign out.         *)
AfterOverrideSignOutElementNoDispatch(result) ==
    IF isError(result) THEN "return" ELSE "readEditedElementContent"

(* Where complexSignoutElement goes with the result of                   *)
(* overrideSignOutElement, lines 365, 371                                *)
AfterOverrideSignOutElement(result) ==
    IF isError(result) THEN "return" ELSE "updateTreeAfterSuccessfulSignout"

(* lines 358-370: the override sign out call; the error returned wraps   *)
(* the message of signOutResult                                          *)
OverrideSignOutElement ==
    /\ pc = "overrideSignOutElement"
    /\ \E overrideSignoutResult \in OverrideSignOutResults :
          /\ calls' = Record(calls,
                 RemoteCall("overrideSignOutElement", element,
                            uploadChangeControlValue, NotDefined, NotDefined,
                            overrideSignoutResult))
          /\ IF AfterOverrideSignOutElement(overrideSignoutResult) = "return"
             THEN ReturnFromUploadElement(
                     Error(<<"Unable to perform an override signout of the element because of error">>
                           \o signOutResult.message))
             ELSE /\ pc' = AfterOverrideSignOutElement(overrideSignoutResult)
                  /\ UNCHANGED <<uploadResult, errorLog>>
    /\ UNCHANGED <<commandVars, editVars, uriVars, signOut, reopenCalls, signOutResult, elementUri, uploadLocation,
                   uploadChangeControlValue, content, editorOpen,
                   tempFileExists, deleteCalls, localVersionFile,
                   automaticSignOut, compareCalls, events, prompts>>

(* lines 371-377, 391-397, 449-466, then the return to uploadElement,    *)
(* lines 220-235: the upload is attempted again                          *)
UpdateTreeAfterSuccessfulSignout ==
    /\ pc = "updateTreeAfterSuccessfulSignout"
    /\ events' = dispatch(events,
           ElementSignedOut(serviceName, service, searchLocationName,
                            editSessionParams.searchLocation, <<element>>))
    /\ pc' = "readEditedElementContent"
    /\ UNCHANGED <<commandVars, editVars, uriVars, signOut, reopenCalls, signOutResult, elementUri, uploadLocation, uploadChangeControlValue,
                   content, uploadResult, editorOpen, tempFileExists,
                   deleteCalls, localVersionFile, automaticSignOut, calls,
                   compareCalls, prompts, errorLog>>

(* ------------------------------------------------------------------ *)
(* The fingerprint mismatch                                            *)
(* ------------------------------------------------------------------ *)

(* path.dirname of the edited file path                                  *)
dirname(filePath) == filePath.dir

(* The local version is saved under the name of the element itself.      *)
LocalElementVersionNoSuffix(elementFilePath, elm, elementContent) ==
    [dir |-> dirname(elementFilePath),
     fileName |-> <<elm.name>>,
     fileExtension |-> elm.extension,
     content |-> elementContent]

(* lines 405-428: the file saved next to the edited file                 *)
LocalElementVersion(elementFilePath, elm, elementContent) ==
    [dir |-> dirname(elementFilePath),
     fileName |-> <<elm.name, "-local-version">>,
     fileExtension |-> elm.extension,
     content |-> elementContent]

(* lines 237-255                                                         *)
SaveLocalElementVersion ==
    /\ pc = "saveLocalElementVersion"
    /\ \E saved \in BOOLEAN :
          IF saved
          THEN /\ localVersionFile' =
                     LocalElementVersion(elementUri.fsPath, element, content)
               /\ pc' = "compareElementWithRemoteVersion"
               /\ UNCHANGED <<uploadResult, errorLog>>
          ELSE /\ ReturnFromUploadElement(
                     Error(<<"Unable to save a local version of the element to compare because of error">>))
               /\ UNCHANGED localVersionFile
    /\ UNCHANGED <<commandVars, editVars, uriVars, signOut, reopenCalls, signOutResult, elementUri, uploadLocation,
                   uploadChangeControlValue, content, editorOpen,
                   tempFileExists, deleteCalls, automaticSignOut, calls,
                   compareCalls, events, prompts>>

CompareResults == {Void, Error(<<"compare: failed">>)}

(* lines 260-279: the compare dialog; when it returns no error           *)
(* uploadElement returns nothing                                         *)
CompareElementWithRemoteVersion ==
    /\ pc = "compareElementWithRemoteVersion"
    /\ compareCalls' = Append(compareCalls,
           [service |-> service,
            searchLocation |-> editSessionParams.searchLocation,
            uploadChangeControlValue |-> uploadChangeControlValue,
            element |-> element,
            serviceName |-> serviceName,
            searchLocationName |-> searchLocationName,
            localVersionFile |-> localVersionFile])
    /\ \E showCompareDialogResult \in CompareResults :
          ReturnFromUploadElement(showCompareDialogResult)
    /\ UNCHANGED <<commandVars, editVars, uriVars, signOut, reopenCalls, signOutResult, elementUri, uploadLocation,
                   uploadChangeControlValue, content, editorOpen,
                   tempFileExists, deleteCalls, localVersionFile,
                   automaticSignOut, calls, events, prompts>>

(* ------------------------------------------------------------------ *)
(* The end of uploadElementCommand                                     *)
(* ------------------------------------------------------------------ *)

(* lines 118-129 and 434-436: showElementToEdit may fail                 *)
ReopenEditSession ==
    /\ pc = "reopenEditSession"
    /\ reopenCalls' = reopenCalls + 1
    /\ \E shown \in BOOLEAN : editorOpen' = shown
    /\ pc' = "done"
    /\ UNCHANGED <<commandVars, editVars, uriVars, signOut, signOutResult, elementUri, uploadLocation,
                   uploadChangeControlValue, content, uploadResult,
                   tempFileExists, deleteCalls, localVersionFile,
                   automaticSignOut, calls, compareCalls, events, prompts,
                   errorLog>>

(* lines 130 and 438-447: a failure of deleteFile is logged only         *)
SafeRemoveUploadedElement ==
    /\ pc = "safeRemoveUploadedElement"
    /\ deleteCalls' = deleteCalls + 1
    /\ \E deleted \in BOOLEAN :
          IF deleted
          THEN /\ tempFileExists' = FALSE
               /\ UNCHANGED errorLog
          ELSE /\ UNCHANGED tempFileExists
               /\ errorLog' = Append(errorLog, <<"Unable to remove the file">>)
    /\ pc' = "updateTreeAfterSuccessfulUpload"
    /\ UNCHANGED <<commandVars, editVars, uriVars, signOut, reopenCalls, signOutResult, elementUri, uploadLocation,
                   uploadChangeControlValue, content, uploadResult,
                   editorOpen, localVersionFile, automaticSignOut, calls,
                   compareCalls, events, prompts>>

(* lines 131-142 and 468-485: the element of the locator is dispatched   *)
UpdateTreeAfterSuccessfulUpload ==
    /\ pc = "updateTreeAfterSuccessfulUpload"
    /\ events' = dispatch(events,
           ElementUpdated(serviceName, service, searchLocationName,
                          editSessionParams.searchLocation,
                          <<editSessionParams.element>>))
    /\ pc' = "done"
    /\ UNCHANGED <<commandVars, editVars, uriVars, signOut, reopenCalls, signOutResult, elementUri, uploadLocation,
                   uploadChangeControlValue, content, uploadResult,
                   editorOpen, tempFileExists, deleteCalls, localVersionFile,
                   automaticSignOut, calls, compareCalls, prompts, errorLog>>

Next ==
    \/ UploadElementCommand
    \/ AskForUploadLocation
    \/ AskForChangeControlValue
    \/ CloseEditSession
    \/ ReadEditedElementContent
    \/ UpdateElement
    \/ AskToSignOutElements
    \/ SignOutElement
    \/ AskToOverrideSignOutForElements
    \/ OverrideSignOutElement
    \/ UpdateTreeAfterSuccessfulSignout
    \/ SaveLocalElementVersion
    \/ CompareElementWithRemoteVersion
    \/ ReopenEditSession
    \/ SafeRemoveUploadedElement
    \/ UpdateTreeAfterSuccessfulUpload

Spec == Init /\ [][Next]_vars

(* Every remote call and every dialog eventually returns, and the code   *)
(* between two awaits runs.                                              *)
FairSpec == Spec /\ WF_vars(Next)

TypeOK ==
    /\ pc \in {"uploadElementCommand", "askForUploadLocation",
               "askForChangeControlValue", "closeEditSession",
               "readEditedElementContent", "updateElement",
               "askToSignOutElements", "signOutElement",
               "askToOverrideSignOutForElements", "overrideSignOutElement",
               "updateTreeAfterSuccessfulSignout", "saveLocalElementVersion",
               "compareElementWithRemoteVersion", "reopenEditSession",
               "safeRemoveUploadedElement", "updateTreeAfterSuccessfulUpload",
               "done"}
    /\ signOut \in [signOutElements : BOOLEAN, automaticSignOut : BOOLEAN]
    /\ editorOpen \in BOOLEAN
    /\ tempFileExists \in BOOLEAN
    /\ deleteCalls \in 0..1
    /\ reopenCalls \in 0..1
    /\ Len(calls) <= MaxTrace
    /\ Len(events) <= MaxTrace
    /\ Len(prompts) <= MaxTrace

(* ------------------------------------------------------------------ *)
(* Observations on the logs                                            *)
(* ------------------------------------------------------------------ *)

IsUpdate(call) == call.op = "updateElement"

IsPlainSignOut(call) == call.op = "signOutElement"

IsOverrideSignOut(call) == call.op = "overrideSignOutElement"

IsSignOut(call) == IsPlainSignOut(call) \/ IsOverrideSignOut(call)

UpdateCalls == SelectSeq(calls, IsUpdate)

PlainSignOutCalls == SelectSeq(calls, IsPlainSignOut)

OverrideSignOutCalls == SelectSeq(calls, IsOverrideSignOut)

SignOutCalls == SelectSeq(calls, IsSignOut)

Ops == [i \in 1..Len(calls) |-> calls[i].op]

EventTypes == [i \in 1..Len(events) |-> events[i].type]

IsSignOutPrompt(prompt) == prompt = "askToSignOutElements"

SignOutPrompts == SelectSeq(prompts, IsSignOutPrompt)

(* no entry of the logs was cut                                          *)
LogsComplete ==
    Len(calls) < MaxTrace /\ Len(events) < MaxTrace /\ Len(prompts) < MaxTrace

Done == pc = "done"

(* the element the edit session was opened for, and its map path         *)
retrievedElement == editSessionParams.element

MapPathOf(elm) == [name |-> elm.name, subSystem |-> elm.subSystem]

InPlace == uploadLocation = MapPathOf(retrievedElement)

SomeUpdateSucceeded == \E i \in 1..Len(UpdateCalls) : UpdateCalls[i].result = Void

IsUpdatedEvent(action) ==
    action.type \in {"ELEMENT_UPDATED", "ELEMENT_ADDED",
                     "ELEMENT_UPDATED_FROM_UP_THE_MAP"}

UpdatedEvents == SelectSeq(events, IsUpdatedEvent)

(* ------------------------------------------------------------------ *)
(* C1                                                                  *)
(* ------------------------------------------------------------------ *)

(* C1: in one orchestration update is called at most twice and signOut   *)
(* at most twice (one plain, one override), and the sign out dialog is   *)
(* shown at most once.                                                   *)
C1_AtMostTwoUpdates ==
    /\ Len(UpdateCalls) <= 2
    /\ Len(PlainSignOutCalls) <= 1
    /\ Len(OverrideSignOutCalls) <= 1
    /\ Len(SignOutPrompts) <= 1

(* ------------------------------------------------------------------ *)
(* C2                                                                  *)
(* ------------------------------------------------------------------ *)

(* C2: when every remote call and every dialog returns, the command      *)
(* reaches a terminal outcome.                                           *)
C2_Terminates == <>Done

(* ------------------------------------------------------------------ *)
(* C3                                                                  *)
(* ------------------------------------------------------------------ *)

(* the first update answered SignoutError, the first sign out succeeded  *)
(* and the second update succeeded                                       *)
C3_Case ==
    /\ Len(UpdateCalls) >= 2
    /\ isSignoutError(UpdateCalls[1].result)
    /\ UpdateCalls[2].result = Void
    /\ Len(PlainSignOutCalls) >= 1
    /\ PlainSignOutCalls[1].result = Void

(* C3: after SignoutError, an accepted and successful sign out and a     *)
(* successful second update, the command ends with exactly two update    *)
(* calls, one signOut call and the two events ElementSignedOut, then     *)
(* the update event.                                                     *)
C3_SignOutThenUpload ==
    (Done /\ C3_Case) =>
        /\ Len(UpdateCalls) = 2
        /\ Len(SignOutCalls) = 1
        /\ EventTypes = <<"ELEMENT_SIGNEDOUT", "ELEMENT_UPDATED">>

C3_Witness == Done /\ C3_Case /\ Len(events) = 2

(* ------------------------------------------------------------------ *)
(* C4                                                                  *)
(* ------------------------------------------------------------------ *)

(* the first update and the first sign out answered SignoutError, the    *)
(* first override sign out and the second update succeeded               *)
C4_Case ==
    /\ Len(UpdateCalls) >= 2
    /\ isSignoutError(UpdateCalls[1].result)
    /\ UpdateCalls[2].result = Void
    /\ Len(PlainSignOutCalls) >= 1
    /\ isSignoutError(PlainSignOutCalls[1].result)
    /\ Len(OverrideSignOutCalls) >= 1
    /\ OverrideSignOutCalls[1].result = Void

(* C4: with an accepted override the remote calls are, in order, update, *)
(* signOut, override signOut, update, and the events are                  *)
(* ElementSignedOut, then the update event.                              *)
C4_OverrideThenUpload ==
    (Done /\ C4_Case) =>
        /\ Ops = <<"updateElement", "signOutElement",
                   "overrideSignOutElement", "updateElement">>
        /\ EventTypes = <<"ELEMENT_SIGNEDOUT", "ELEMENT_UPDATED">>

C4_Witness == Done /\ C4_Case /\ Len(calls) = 4 /\ Len(events) = 2

(* ------------------------------------------------------------------ *)
(* C5                                                                  *)
(* ------------------------------------------------------------------ *)

(* C5: every ElementSignedOut event is delivered before the update       *)
(* event of the same orchestration.                                      *)
C5_SignedOutBeforeUpdated ==
    \A i, j \in 1..Len(events) :
        (events[i].type = "ELEMENT_SIGNEDOUT" /\ IsUpdatedEvent(events[j]))
            => i < j

C5_Witness ==
    /\ Done
    /\ \E i, j \in 1..Len(events) :
          events[i].type = "ELEMENT_SIGNEDOUT" /\ IsUpdatedEvent(events[j])

(* ------------------------------------------------------------------ *)
(* C6                                                                  *)
(* ------------------------------------------------------------------ *)

(* the target is the retrieved element and the first update succeeded    *)
C6_Case ==
    /\ InPlace
    /\ Len(UpdateCalls) >= 1
    /\ UpdateCalls[1].result = Void

C6_OneInPlaceEvent ==
    events = <<ElementUpdated(serviceName, service, searchLocationName,
                              editSessionParams.searchLocation, <<element>>)>>

(* C6 as stated: an in-place upload that succeeds at once dispatches     *)
(* exactly the in-place update event, the temp file is deleted and the   *)
(* editor is closed.                                                     *)
C6_Original ==
    (Done /\ C6_Case) =>
        /\ C6_OneInPlaceEvent
        /\ ~tempFileExists
        /\ ~editorOpen

(* C6 amended: an in-place upload that succeeds at once dispatches       *)
(* exactly the in-place update event, the editor is closed, and the      *)
(* deletion of the temp file is attempted exactly once: the file is gone *)
(* unless that deletion failed, which is logged.                         *)
C6_InPlaceUpload ==
    (Done /\ C6_Case) =>
        /\ C6_OneInPlaceEvent
        /\ ~editorOpen
        /\ deleteCalls = 1
        /\ tempFileExists =>
               \E i \in 1..Len(errorLog) :
                   errorLog[i] = <<"Unable to remove the file">>

C6_Witness == Done /\ C6_Case /\ Len(events) = 1 /\ ~tempFileExists

(* ------------------------------------------------------------------ *)
(* C7                                                                  *)
(* ------------------------------------------------------------------ *)

(* the action expected for an element uploaded under a new name          *)
ElementAdded(svcName, svc, locName, loc, elm) ==
    [type |-> "ELEMENT_ADDED", serviceName |-> svcName, service |-> svc,
     searchLocationName |-> locName, searchLocation |-> loc, element |-> elm]

(* the last update call returned success                                 *)
UploadSucceeded ==
    /\ LogsComplete
    /\ Len(UpdateCalls) >= 1
    /\ UpdateCalls[Len(UpdateCalls)].result = Void

(* C7: a successful upload to an element name other than the retrieved   *)
(* one dispatches ElementAddedAtNewLocation carrying the chosen target.  *)
C7_NewElementAdded ==
    (Done /\ UploadSucceeded /\ uploadLocation.name # retrievedElement.name) =>
        \E i \in 1..Len(events) :
            events[i] = ElementAdded(serviceName, service, searchLocationName,
                                     editSessionParams.searchLocation, element)

(* ------------------------------------------------------------------ *)
(* C8                                                                  *)
(* ------------------------------------------------------------------ *)

(* the action expected for an upload from up the map                     *)
ElementUpdatedFromUpTheMap(svcName, svc, locName, loc, target, original) ==
    [type |-> "ELEMENT_UPDATED_FROM_UP_THE_MAP",
     fetchElementsArgs |-> [service |-> svc, searchLocation |-> loc],
     targetLocation |-> target,
     pathUpTheMap |-> original,
     treePath |-> [serviceName |-> svcName, searchLocationName |-> locName,
                   searchLocation |-> target.subSystem]]

IsVague(loc) == loc.system = NotDefined /\ loc.subsystem = NotDefined

(* the search location is vague and the target is the retrieved element  *)
(* name at another location                                              *)
C8_Case ==
    /\ IsVague(editSessionParams.searchLocation)
    /\ uploadLocation.name = retrievedElement.name
    /\ uploadLocation.subSystem # retrievedElement.subSystem

(* C8: a successful upload under a vague search location to an existing  *)
(* location other than the retrieved one dispatches                      *)
(* ElementUpdatedFromUpTheMap and no in-place update event.              *)
C8_UpdatedFromUpTheMap ==
    (Done /\ UploadSucceeded /\ C8_Case) =>
        /\ \E i \in 1..Len(events) :
              events[i] = ElementUpdatedFromUpTheMap(serviceName, service,
                              searchLocationName,
                              editSessionParams.searchLocation,
                              uploadLocation, retrievedElement)
        /\ \A i \in 1..Len(events) : events[i].type # "ELEMENT_UPDATED"

(* ------------------------------------------------------------------ *)
(* C9                                                                  *)
(* ------------------------------------------------------------------ *)

SomeUpdateMismatched ==
    \E i \in 1..Len(UpdateCalls) :
        isFingerprintMismatchError(UpdateCalls[i].result)

(* the conflict was staged: the local version is saved and the compare   *)
(* dialog returned no error                                              *)
ConflictStaged ==
    /\ SomeUpdateMismatched
    /\ localVersionFile # NoFile
    /\ Len(compareCalls) = 1
    /\ uploadResult = Void

(* C9 as stated: an update event is dispatched only after some update    *)
(* call returned success.                                                *)
C9_Original ==
    (LogsComplete /\ Len(UpdatedEvents) > 0) => SomeUpdateSucceeded

(* C9 amended: an update event is dispatched only after some update call *)
(* returned success, or after an update call returned                    *)
(* FingerprintMismatchError, the local version was saved and the compare *)
(* dialog returned no error; a mismatch whose staging failed dispatches  *)
(* no update event.                                                      *)
C9_UpdatedOnlyAfterSuccessOrStaging ==
    (LogsComplete /\ Len(UpdatedEvents) > 0) =>
        (SomeUpdateSucceeded \/ ConflictStaged)

C9_Witness ==
    /\ Done
    /\ LogsComplete
    /\ SomeUpdateMismatched
    /\ ~SomeUpdateSucceeded
    /\ Len(UpdatedEvents) = 1

(* ------------------------------------------------------------------ *)
(* C10                                                                 *)
(* ------------------------------------------------------------------ *)

(* the update call returned FingerprintMismatchError, the local version  *)
(* was saved and the compare dialog returned no error                    *)
C10_Case ==
    /\ Len(UpdateCalls) = 1
    /\ isFingerprintMismatchError(UpdateCalls[1].result)
    /\ ConflictStaged

(* C10: after a staged conflict the first action dispatched is the       *)
(* in-place update of the upload target.                                 *)
C10_StagedConflictDispatch ==
    (Done /\ C10_Case) =>
        /\ Len(events) >= 1
        /\ events[1] = ElementUpdated(serviceName, service, searchLocationName,
                                      editSessionParams.searchLocation,
                                      <<element>>)

(* ------------------------------------------------------------------ *)
(* C11                                                                 *)
(* ------------------------------------------------------------------ *)

LastUpdateCall == UpdateCalls[Len(UpdateCalls)]

LastUpdateMismatched ==
    /\ Len(UpdateCalls) >= 1
    /\ isFingerprintMismatchError(LastUpdateCall.result)

SaveLocalVersionFailed ==
    uploadResult =
        Error(<<"Unable to save a local version of the element to compare because of error">>)

(* the file the failed update asks for: next to the edited file, named   *)
(* after the element of the update, with the extension of the retrieved  *)
(* element and the content of the update                                 *)
C11_ExpectedFile ==
    [dir |-> elementUri.fsPath.dir,
     fileName |-> <<LastUpdateCall.element.name, "-local-version">>,
     fileExtension |-> retrievedElement.extension,
     content |-> LastUpdateCall.content]

(* C11: after an update call returned FingerprintMismatchError, the file *)
(* '<element name>-local-version' with the original extension is written *)
(* in the directory of the edited file with the content of the failed    *)
(* update; the compare dialog is called only after that write succeeded, *)
(* with the service, search location, change control value and element   *)
(* of the update and with that file; when the write fails the compare    *)
(* dialog is not called.                                                 *)
C11_LocalVersionThenCompare ==
    /\ Len(compareCalls) <= 1
    /\ (localVersionFile # NoFile /\ LogsComplete) =>
          /\ LastUpdateMismatched
          /\ localVersionFile = C11_ExpectedFile
    /\ pc = "compareElementWithRemoteVersion" => localVersionFile # NoFile
    /\ \A i \in 1..Len(compareCalls) :
          /\ compareCalls[i].localVersionFile = localVersionFile
          /\ localVersionFile # NoFile
          /\ compareCalls[i].service = service
          /\ compareCalls[i].searchLocation = elementUri.query.searchLocation
          /\ LogsComplete =>
                /\ compareCalls[i].uploadChangeControlValue =
                       LastUpdateCall.changeControlValue
                /\ compareCalls[i].element = LastUpdateCall.element
    /\ SaveLocalVersionFailed =>
          /\ localVersionFile = NoFile
          /\ compareCalls = <<>>
    /\ (Done /\ LogsComplete /\ LastUpdateMismatched) =>
          \/ Len(compareCalls) = 1
          \/ SaveLocalVersionFailed

(* the mismatch came on the attempt after a sign out, with a content     *)
(* saved again in between, for an upload to another element              *)
C11_Witness ==
    /\ Done
    /\ LogsComplete
    /\ Len(compareCalls) = 1
    /\ Len(UpdateCalls) = 2
    /\ UpdateCalls[1].content # UpdateCalls[2].content
    /\ uploadLocation.name # retrievedElement.name

(* ------------------------------------------------------------------ *)
(* C12                                                                 *)
(* ------------------------------------------------------------------ *)

(* C12: an update call that returned FingerprintMismatchError is the     *)
(* last remote call of the command: what follows is the saving of the    *)
(* local version, the compare dialog and the end of the command, which   *)
(* comes once the compare dialog was called or the saving failed.        *)
C12_NoCallAfterMismatch ==
    /\ \A i \in 1..Len(calls) :
          (isFingerprintMismatchError(calls[i].result) /\ i < MaxTrace) =>
              /\ i = Len(calls)
              /\ IsUpdate(calls[i])
              /\ pc \in {"saveLocalElementVersion",
                         "compareElementWithRemoteVersion",
                         "safeRemoveUploadedElement",
                         "updateTreeAfterSuccessfulUpload",
                         "reopenEditSession", "done"}
    /\ (LogsComplete /\ LastUpdateMismatched
            /\ pc \notin {"saveLocalElementVersion",
                          "compareElementWithRemoteVersion"}) =>
          \/ Len(compareCalls) = 1
          \/ SaveLocalVersionFailed

(* the mismatch on the attempt that follows a sign out                   *)
C12_Witness ==
    /\ Done
    /\ Len(calls) = 3
    /\ IsUpdate(calls[1]) /\ IsPlainSignOut(calls[2])
    /\ isFingerprintMismatchError(calls[3].result)
    /\ Len(compareCalls) = 1

(* ------------------------------------------------------------------ *)
(* C13                                                                 *)
(* ------------------------------------------------------------------ *)

(* C13 as stated: the temp file is deleted at most once and only when an *)
(* update call returned success; on every other terminal path the temp  *)
(* file is left intact.                                                  *)
C13_Original ==
    /\ deleteCalls <= 1
    /\ LogsComplete =>
          /\ deleteCalls >= 1 => SomeUpdateSucceeded
          /\ ~SomeUpdateSucceeded => tempFileExists

(* C13 amended: the deletion of the temp file is attempted at most once  *)
(* and only when uploadElement returned no error, that is when an update *)
(* call returned success or when a fingerprint mismatch was staged and   *)
(* the compare dialog returned no error; on every other terminal path    *)
(* the deletion is not attempted and the temp file is left intact.       *)
C13_DeletedOnlyAfterUploadElementReturnedVoid ==
    /\ deleteCalls <= 1
    /\ deleteCalls >= 1 => uploadResult = Void
    /\ ~tempFileExists => deleteCalls = 1
    /\ LogsComplete =>
          /\ deleteCalls >= 1 => (SomeUpdateSucceeded \/ ConflictStaged)
          /\ ~(SomeUpdateSucceeded \/ ConflictStaged) => tempFileExists
    /\ (Done /\ uploadResult = Void) => deleteCalls = 1

C13_Witness ==
    /\ Done
    /\ LogsComplete
    /\ ConflictStaged
    /\ ~SomeUpdateSucceeded
    /\ deleteCalls = 1
    /\ ~tempFileExists

(* ------------------------------------------------------------------ *)
(* C14                                                                 *)
(* ------------------------------------------------------------------ *)

Logged(message) == \E i \in 1..Len(errorLog) : errorLog[i] = message

UploadLocationAbandoned ==
    Logged(<<"Upload location must be specified to upload the element">>)

ChangeControlValueAbandoned ==
    Logged(<<"CCID and Comment must be specified to upload the element">>)

(* C14: when the upload location dialog or the change control dialog is  *)
(* abandoned the command ends with no remote call, the editor is not     *)
(* closed, the temp file is not deleted and nothing is dispatched; the   *)
(* change control dialog is shown only after a location was supplied.    *)
C14_AbandonedDialogs ==
    /\ (UploadLocationAbandoned \/ ChangeControlValueAbandoned) =>
          /\ Done
          /\ calls = <<>>
          /\ compareCalls = <<>>
          /\ editorOpen
          /\ reopenCalls = 0
          /\ tempFileExists
          /\ deleteCalls = 0
          /\ events = <<>>
    /\ UploadLocationAbandoned =>
          /\ prompts = <<"askForUploadLocation">>
          /\ uploadLocation = NoMapPath
    /\ ChangeControlValueAbandoned =>
          /\ prompts = <<"askForUploadLocation", "askForChangeControlValue">>
          /\ uploadChangeControlValue = NoChangeControlValue
    /\ \A i \in 1..Len(prompts) :
          prompts[i] = "askForChangeControlValue" =>
              /\ i = 2
              /\ prompts[1] = "askForUploadLocation"
              /\ uploadLocation \in ElementMapPath

C14_Witness ==
    /\ Done
    /\ ChangeControlValueAbandoned
    /\ uploadLocation \in ElementMapPath
    /\ Len(prompts) = 2

(* ------------------------------------------------------------------ *)
(* C15                                                                 *)
(* ------------------------------------------------------------------ *)

SignOutDeclined ==
    uploadResult =
        Error(<<"Unable to upload the element because it is signed out to somebody else">>)

OverrideSignOutRefused ==
    uploadResult =
        Error(<<"The element is signed out to somebody else, override signout action is not selected">>)

PromptDeclined ==
    \/ UploadLocationAbandoned
    \/ ChangeControlValueAbandoned
    \/ SignOutDeclined
    \/ OverrideSignOutRefused

SomeCallSucceeded == \E i \in 1..Len(calls) : calls[i].result = Void

(* C15: in a run in which the user declines a prompt, no remote call     *)
(* has succeeded before the decline.                                     *)
C15_NoSuccessBeforeDecline ==
    (PromptDeclined /\ LogsComplete) => ~SomeCallSucceeded

(* ------------------------------------------------------------------ *)
(* C16                                                                 *)
(* ------------------------------------------------------------------ *)

LastCall == calls[Len(calls)]

(* C16: when the sign out dialog is declined the command ends with the   *)
(* 'signed out to somebody else' error and the update that returned      *)
(* SignoutError stays the last remote call; when the override dialog is  *)
(* refused the command ends with an error and the signOut that returned  *)
(* SignoutError stays the last remote call; from the decline on no       *)
(* remote call is made and nothing is dispatched.                        *)
C16_DeclinedSignOut ==
    /\ [](SignOutDeclined =>
            /\ pc \in {"reopenEditSession", "done"}
            /\ isError(uploadResult)
            /\ Logged(<<"Unable to upload the element">> \o uploadResult.message)
            /\ LogsComplete =>
                  /\ Len(calls) >= 1
                  /\ IsUpdate(LastCall)
                  /\ isSignoutError(LastCall.result))
    /\ [](OverrideSignOutRefused =>
            /\ pc \in {"reopenEditSession", "done"}
            /\ isError(uploadResult)
            /\ Logged(<<"Unable to upload the element">> \o uploadResult.message)
            /\ LogsComplete =>
                  /\ Len(calls) >= 2
                  /\ IsPlainSignOut(LastCall)
                  /\ isSignoutError(LastCall.result)
                  /\ IsUpdate(calls[Len(calls) - 1])
                  /\ isSignoutError(calls[Len(calls) - 1].result))
    /\ [][(SignOutDeclined \/ OverrideSignOutRefused)' =>
             (calls' = calls /\ events' = events)]_vars

C16_Witness ==
    /\ Done
    /\ OverrideSignOutRefused
    /\ LogsComplete
    /\ Len(calls) = 2
    /\ events = <<>>

(* ------------------------------------------------------------------ *)
(* C17                                                                 *)
(* ------------------------------------------------------------------ *)

ReadFailed ==
    uploadResult =
        Error(<<"Unable to read the element content because of error">>)

(* C17 as stated: a command that closed the editor and ends with an      *)
(* error dispatches no update event, leaves the temp file in place and   *)
(* has the editor open again; an unreadable temp file causes no remote   *)
(* call at all.                                                          *)
C17_Original ==
    (Done /\ isError(uploadResult)) =>
        /\ UpdatedEvents = <<>>
        /\ tempFileExists
        /\ deleteCalls = 0
        /\ editorOpen
        /\ ReadFailed => calls = <<>>

(* C17 amended: when uploadElement returns an error the command makes no *)
(* further remote call and dispatches nothing more, has dispatched no    *)
(* update event, does not attempt to delete the temp file and calls the  *)
(* reopening of the edit session exactly once before it returns (the     *)
(* editor stays closed when that reopening fails); an unreadable temp    *)
(* file causes no remote call after the failed read: there is none at    *)
(* all on the first attempt, and on an attempt that follows a sign out   *)
(* the successful sign out is the last one.                              *)
C17_FailedUploadReopensEditSession ==
    /\ [](isError(uploadResult) =>
            /\ pc \in {"reopenEditSession", "done"}
            /\ UpdatedEvents = <<>>
            /\ tempFileExists
            /\ deleteCalls = 0
            /\ reopenCalls = (IF Done THEN 1 ELSE 0)
            /\ (reopenCalls = 0) => ~editorOpen
            /\ (ReadFailed /\ LogsComplete /\ calls # <<>>) =>
                  /\ IsSignOut(LastCall)
                  /\ LastCall.result = Void)
    /\ [](reopenCalls >= 1 => isError(uploadResult))
    /\ [][isError(uploadResult) => (calls' = calls /\ events' = events)]_vars

(* the temp file could not be read on the attempt after a sign out       *)
C17_Witness ==
    /\ Done
    /\ ReadFailed
    /\ LogsComplete
    /\ Len(calls) = 2
    /\ reopenCalls = 1
    /\ ~editorOpen

(* ------------------------------------------------------------------ *)
(* C18                                                                 *)
(* ------------------------------------------------------------------ *)

(* C18: every update call carries the fingerprint stored in the locator  *)
(* of the edited file and the content read from the temp file for that   *)
(* attempt.                                                              *)
C18_UpdateCarriesFingerprintAndContent ==
    /\ [](\A i \in 1..Len(UpdateCalls) :
            /\ UpdateCalls[i].fingerprint = elementUri.query.fingerprint
            /\ UpdateCalls[i].fingerprint \in Fingerprints
            /\ UpdateCalls[i].content \in Contents)
    /\ []((pc = "updateElement") => content \in Contents)
    /\ [][(pc = "updateElement" /\ Len(calls') > Len(calls)) =>
             /\ IsUpdate(calls'[Len(calls')])
             /\ calls'[Len(calls')].content = content
             /\ calls'[Len(calls')].fingerprint = elementUri.query.fingerprint]_vars

C18_Witness ==
    /\ Len(UpdateCalls) = 2
    /\ UpdateCalls[1].content # UpdateCalls[2].content
    /\ UpdateCalls[2].fingerprint = "fp2"
    /\ Len(OverrideSignOutCalls) = 1

(* ------------------------------------------------------------------ *)
(* C19                                                                 *)
(* ------------------------------------------------------------------ *)

(* C19: every update, signOut and override signOut call carries the      *)
(* change control value supplied in the change control dialog of the     *)
(* same command; none is made without it.                                *)
C19_CallsCarryChangeControlValue ==
    /\ \A i \in 1..Len(calls) :
          /\ calls[i].changeControlValue = uploadChangeControlValue
          /\ calls[i].changeControlValue \in ChangeControlValue
    /\ calls # <<>> =>
          /\ Len(prompts) >= 2
          /\ prompts[2] = "askForChangeControlValue"
    /\ uploadChangeControlValue = NoChangeControlValue =>
          pc \in {"uploadElementCommand", "askForUploadLocation",
                  "askForChangeControlValue", "done"}

C19_Witness ==
    /\ Len(UpdateCalls) = 2
    /\ Len(PlainSignOutCalls) = 1
    /\ Len(OverrideSignOutCalls) = 1
    /\ uploadChangeControlValue.ccid = "CCID2"

(* ------------------------------------------------------------------ *)
(* C20                                                                 *)
(* ------------------------------------------------------------------ *)

IsSignedOutEvent(action) == action.type = "ELEMENT_SIGNEDOUT"

SignedOutEvents == SelectSeq(events, IsSignedOutEvent)

(* C20: when the upload target is not the retrieved element, the signOut *)
(* and override signOut calls are made for the retrieved element and the *)
(* ElementSignedOut action lists the retrieved element, while the update *)
(* calls are made for the upload target.                                 *)
C20_SignOutOfRetrievedElement ==
    ~InPlace =>
        /\ \A i \in 1..Len(SignOutCalls) :
              SignOutCalls[i].element = retrievedElement
        /\ \A i \in 1..Len(SignedOutEvents) :
              SignedOutEvents[i].elements = <<retrievedElement>>
        /\ \A i \in 1..Len(UpdateCalls) :
              UpdateCalls[i].element = element

(* ------------------------------------------------------------------ *)
(* Several invocations of uploadElementCommand for one edited file     *)
(* ------------------------------------------------------------------ *)

(* The number of times the command is triggered for the edited file.     *)
MaxInvocations == 2

Invocations == 1..MaxInvocations

uploadVarsIdle ==
    /\ pc = "idle"
    /\ elementUri = NotDefined
    /\ uploadLocation = NoMapPath
    /\ uploadChangeControlValue = NoChangeControlValue
    /\ content = NotDefined
    /\ uploadResult = NoResult
    /\ signOutResult = NoResult
    /\ signOut = NoSignOut
    /\ editorOpen = TRUE
    /\ tempFileExists = TRUE
    /\ deleteCalls = 0
    /\ reopenCalls = 0
    /\ localVersionFile = NoFile
    /\ automaticSignOut = FALSE
    /\ calls = <<>>
    /\ compareCalls = <<>>
    /\ events = <<>>
    /\ prompts = <<>>
    /\ errorLog = <<>>

(* The awaits an invocation suspended at `at` can be suspended at next:  *)
(* the control flow of uploadElementCommand, uploadElement and           *)
(* complexSignoutElement, whatever the answers are.                      *)
NextAwaits(at) ==
    CASE at = "uploadElementCommand" -> {"askForUploadLocation", "done"}
      [] at = "askForUploadLocation" -> {"askForChangeControlValue", "done"}
      [] at = "askForChangeControlValue" -> {"closeEditSession", "done"}
      [] at = "closeEditSession" -> {"readEditedElementContent"}
      [] at = "readEditedElementContent" ->
            {"updateElement", AfterUploadElement(Error(<<>>))}
      [] at = "updateElement" ->
            {IF AfterUpdateElement(result) = "return"
             THEN AfterUploadElement(result)
             ELSE AfterUpdateElement(result) : result \in UpdateResults}
      [] at = "askToSignOutElements" ->
            {"signOutElement", AfterUploadElement(Error(<<>>))}
      [] at = "signOutElement" ->
            {IF AfterSignOutElement(result) = "return"
             THEN AfterUploadElement(Error(result.message))
             ELSE AfterSignOutElement(result) : result \in SignOutResults}
      [] at = "askToOverrideSignOutForElements" ->
            {"overrideSignOutElement", AfterUploadElement(Error(<<>>))}
      [] at = "overrideSignOutElement" ->
            {IF AfterOverrideSignOutElement(result) = "return"
             THEN AfterUploadElement(Error(result.message))
             ELSE AfterOverrideSignOutElement(result) :
                 result \in OverrideSignOutResults}
      [] at = "updateTreeAfterSuccessfulSignout" -> {"readEditedElementContent"}
      [] at = "saveLocalElementVersion" ->
            {"compareElementWithRemoteVersion", AfterUploadElement(Error(<<>>))}
      [] at = "compareElementWithRemoteVersion" ->
            {AfterUploadElement(result) : result \in CompareResults}
      [] at = "reopenEditSession" -> {"done"}
      [] at = "safeRemoveUploadedElement" -> {"updateTreeAfterSuccessfulUpload"}
      [] at = "updateTreeAfterSuccessfulUpload" -> {"done"}
      [] OTHER -> {}

CommandsInit ==
    /\ commandAt = [i \in Invocations |-> "notTriggered"]
    /\ triggered = <<>>
    /\ uploadVarsIdle
    /\ editVarsIdle
    /\ uriVarsIdle

(* The command is triggered for the edited file: nothing in              *)
(* uploadElementCommand looks at the invocations already running.        *)
TriggerUploadElementCommand(i) ==
    /\ commandAt[i] = "notTriggered"
    /\ commandAt' = [commandAt EXCEPT ![i] = "uploadElementCommand"]
    /\ triggered' = Append(triggered, i)
    /\ UNCHANGED <<uploadVars, editVars, uriVars>>

(* An invocation goes on from the await it is suspended at to its next   *)
(* await; the invocations interleave at their awaits only.               *)
ResumeUploadElementCommand(i) ==
    /\ \E at \in NextAwaits(commandAt[i]) :
          commandAt' = [commandAt EXCEPT ![i] = at]
    /\ UNCHANGED <<triggered, uploadVars, editVars, uriVars>>

CommandsNext ==
    \/ \E i \in Invocations : TriggerUploadElementCommand(i)
    \/ \E i \in Invocations : ResumeUploadElementCommand(i)

CommandsSpec == CommandsInit /\ [][CommandsNext]_vars

(* ------------------------------------------------------------------ *)
(* C21                                                                 *)
(* ------------------------------------------------------------------ *)

(* invocation j was triggered before invocation i                        *)
TriggeredBefore(j, i) ==
    \E m, n \in 1..Len(triggered) :
        m < n /\ triggered[m] = j /\ triggered[n] = i

(* C21: while an invocation of the upload command for an edited file has *)
(* not reached its end, no invocation triggered after it for the same    *)
(* file has an update call in flight.                                    *)
C21_OneUploadInFlight ==
    \A i, j \in Invocations :
        (TriggeredBefore(j, i) /\ commandAt[i] = "updateElement") =>
            commandAt[j] = "done"

(* ------------------------------------------------------------------ *)
(* The retrieval of elements for editing: editMultipleElements         *)
(* ------------------------------------------------------------------ *)

(* The largest number of elements selected for editing.                  *)
MaxElements == 3

MAX_PARALLEL_REQUESTS_DEFAULT == 4

(* The values of the endevor.maxParallelRequests setting.                *)
MaxParallelRequests == {1, 2}

EditElementNames == <<"ELM1", "ELM2", "ELM3", "ELM4">>

(* A result that is not there yet.                                       *)
(* The workspace folders getWorkspaceUri can give.                       *)
Workspaces == {"/workspace", "/other/workspace"}

Pending == [kind |-> "pending", message |-> <<>>]

(* fromTreeElementUri: the query of a tree element locator, or an error  *)
fromTreeElementUri(uri) ==
    IF uri.valid
    THEN [kind |-> "TreeElementUriQuery", message |-> <<>>,
          serviceName |-> serviceName, service |-> service,
          searchLocationName |-> searchLocationName,
          element |-> uri.element]
    ELSE Error(<<"uri: not a tree element locator">>)

(* The elements that can be selected: the name shown in the tree and the *)
(* locator of the tree node.                                             *)
SelectedElement(n) ==
    [name : {EditElementNames[n]},
     uri : [valid : BOOLEAN, element : {EditElementNames[n]}]]

(* What Endevor answers to a retrieve of an element: its content and its *)
(* fingerprint, or an error.                                             *)
RetrieveResponsesOf(elm, fingerprints) ==
    {[kind |-> "ElementWithFingerprint", message |-> <<>>,
      content |-> <<elm, "content">>, fingerprint |-> <<elm, fingerprint>>] :
         fingerprint \in fingerprints}
    \cup {Error(<<"retrieve: failed">>)}

RetrieveResponses(elm) == RetrieveResponsesOf(elm, {"fingerprint"})

NoResponses == [n \in 1..Len(editElements) |-> Pending]

(* lines 176-185                                                         *)
elementUris ==
    [n \in 1..Len(editElements) |->
        LET elementsUploadOptions == fromTreeElementUri(editElements[n].uri)
        IN  IF isError(elementsUploadOptions)
            THEN Error(<<"Unable to edit the element", editElements[n].name,
                         "because of an error">>
                       \o elementsUploadOptions.message)
            ELSE elementsUploadOptions]

(* line 186                                                              *)
elementsNumber == Len(editElements)

EditInit ==
    /\ editAt = "getWorkspaceUri"
    /\ \E number \in 1..MaxElements :
          editElements \in [1..number -> UNION {SelectedElement(n) : n \in 1..number}]
    /\ \A n \in 1..Len(editElements) : editElements[n].name = EditElementNames[n]
    /\ workspaceUri = NotDefined
    /\ endevorMaxRequestsNumber = 0
    /\ retrieveStarted = 0
    /\ retrieveRunning = {}
    /\ retrieveCalls = <<>>
    /\ retrieveSettled = <<>>
    /\ responses = NoResponses
    /\ retrievedContents = NoResponses
    /\ saveRunning = {}
    /\ saveResults = NoResponses
    /\ savedFiles = {}
    /\ showStarted = 0
    /\ showRunning = {}
    /\ showResults = NoResponses
    /\ shownEditors = <<>>
    /\ editErrorLog = <<>>
    /\ uploadVarsIdle
    /\ commandVarsIdle
    /\ uriVarsIdle

(* lines 152-175: without a workspace the command ends; the size of the  *)
(* pool is the setting, or the default when the setting cannot be read   *)
GetWorkspaceUri ==
    /\ editAt = "getWorkspaceUri"
    /\ \E opened \in BOOLEAN :
          IF ~opened
          THEN /\ editErrorLog' = Append(editErrorLog,
                      [summary |-> <<"At least one workspace in this project should be opened to edit elements">>,
                       names |-> <<>>, messages |-> <<>>])
               /\ editAt' = "done"
               /\ UNCHANGED <<workspaceUri, endevorMaxRequestsNumber>>
          ELSE /\ workspaceUri' \in Workspaces
               /\ endevorMaxRequestsNumber' \in
                      MaxParallelRequests \cup {MAX_PARALLEL_REQUESTS_DEFAULT}
               /\ editAt' = "retrieving"
               /\ UNCHANGED editErrorLog
    /\ UNCHANGED <<editElements, retrieveStarted, retrieveRunning,
                   retrieveCalls, retrieveSettled, responses, retrievedContents, saveRunning,
                   saveResults, savedFiles, showStarted, showRunning,
                   showResults, shownEditors, uploadVars, commandVars, uriVars>>

(* Every task of the pool is started at once.                            *)
retrieveConcurrencyElementsNumber == elementsNumber

(* lines 201-203: the concurrency of the pool of retrieve tasks          *)
retrieveConcurrency == endevorMaxRequestsNumber

(* lines 190-204: the pool starts the tasks in the order of the list,    *)
(* never more than its concurrency at a time; the task of an element     *)
(* without a valid locator calls nothing                                 *)
StartRetrieveTask ==
    /\ editAt = "retrieving"
    /\ retrieveStarted < elementsNumber
    /\ Cardinality(retrieveRunning) < retrieveConcurrency
    /\ LET n == retrieveStarted + 1
       IN  /\ retrieveStarted' = n
           /\ retrieveRunning' = retrieveRunning \cup {n}
           /\ retrieveCalls' = IF isError(elementUris[n]) THEN retrieveCalls
                               ELSE Append(retrieveCalls, n)
    /\ UNCHANGED <<retrieveSettled, editAt, editElements, workspaceUri,
                   endevorMaxRequestsNumber, responses, retrievedContents,
                   saveRunning, saveResults, savedFiles, showStarted,
                   showRunning, showResults, shownEditors, editErrorLog,
                   uploadVars, commandVars, uriVars>>

(* lines 190-204: the pool keeps the result of a task at the index of    *)
(* the task                                                              *)
SettledAt(results, n) == n

(* lines 192-199: a running retrieve task settles, in any order          *)
SettleRetrieveTask(n) ==
    /\ editAt = "retrieving"
    /\ n \in retrieveRunning
    /\ retrieveRunning' = retrieveRunning \ {n}
    /\ retrieveSettled' = Append(retrieveSettled, n)
    /\ \E result \in (IF isError(elementUris[n]) THEN {elementUris[n]}
                       ELSE RetrieveResponses(elementUris[n].element)) :
          /\ responses' = [responses EXCEPT ![n] = result]
          /\ retrievedContents' =
                 [retrievedContents EXCEPT
                     ![SettledAt(retrievedContents, n)] = result]
    /\ UNCHANGED <<editAt, editElements, workspaceUri,
                   endevorMaxRequestsNumber, retrieveStarted, retrieveCalls,
                   saveRunning, saveResults, savedFiles, showStarted,
                   showRunning, showResults, shownEditors, editErrorLog,
                   uploadVars, commandVars, uriVars>>

(* The result of the first failed element is the result of every element *)
retrieveResultFailFast(index) ==
    LET failed == {n \in 1..elementsNumber :
                      isError(elementUris[n]) \/ isError(retrievedContents[n])}
    IN  IF failed = {}
        THEN [kind |-> "RetrieveResult", message |-> <<>>,
              element |-> elementUris[index],
              content |-> retrievedContents[index]]
        ELSE LET first == CHOOSE n \in failed : \A m \in failed : n <= m
             IN  IF isError(elementUris[first]) THEN elementUris[first]
                 ELSE retrievedContents[first]

(* The retrieved content is taken from the next element of the list.     *)
retrieveResultOfNeighbour(index) ==
    LET other == (index % elementsNumber) + 1
    IN  IF isError(elementUris[index]) THEN elementUris[index]
        ELSE IF isError(retrievedContents[other]) THEN retrievedContents[other]
        ELSE [kind |-> "RetrieveResult", message |-> <<>>,
              element |-> elementUris[index],
              content |-> retrievedContents[other]]

(* lines 206-227: the locator and the retrieved content of one index     *)
retrieveResult(index) ==
    IF isError(elementUris[index]) THEN elementUris[index]
    ELSE IF isError(retrievedContents[index]) THEN retrievedContents[index]
    ELSE [kind |-> "RetrieveResult", message |-> <<>>,
          element |-> elementUris[index],
          content |-> retrievedContents[index]]

retrieveResults == [index \in 1..elementsNumber |-> retrieveResult(index)]

(* lines 187-205: the pool of retrieve tasks is awaited: every task was  *)
(* started and has settled                                               *)
RetrievesSettled == retrieveStarted = elementsNumber /\ retrieveRunning = {}

(* lines 229-234: no save is started for an error                        *)
SaveStarted(result) == ~isError(result)

(* lines 187, 206-237: the pool of retrieve tasks has settled; the saves *)
(* of the retrieved elements are started together                        *)
StartSaves ==
    /\ editAt = "retrieving"
    /\ RetrievesSettled
    /\ saveRunning' = {n \in 1..elementsNumber : SaveStarted(retrieveResults[n])}
    /\ saveResults' = [n \in 1..elementsNumber |->
                          IF SaveStarted(retrieveResults[n]) THEN Pending
                          ELSE retrieveResults[n]]
    /\ editAt' = "saving"
    /\ UNCHANGED <<editElements, workspaceUri, endevorMaxRequestsNumber,
                   retrieveStarted, retrieveRunning, retrieveCalls, retrieveSettled, responses,
                   retrievedContents, savedFiles, showStarted, showRunning,
                   showResults, shownEditors, editErrorLog, uploadVars,
                   commandVars, uriVars>>

(* saveIntoEditFolder: the file written into the edit folder of the      *)
(* workspace                                                             *)
EditFolderFile(workspace, svcName, locName, elm, elementContent) ==
    [workspace |-> workspace, serviceName |-> svcName,
     searchLocationName |-> locName, element |-> elm,
     content |-> elementContent]

(* What withUploadOptions may log when the locator cannot be built.      *)
UnableToOpen(name) ==
    [summary |-> <<"Unable to open the element", name, "for editing">>,
     names |-> <<name>>, messages |-> <<>>]

(* withUploadOptions: the locator of the edited file                     *)
withUploadOptions(file, uploadOptions) ==
    [kind |-> "Uri", message |-> <<>>, fsPath |-> file,
     query |-> uploadOptions]

(* lines 234-254: a running save settles, in any order: the file is      *)
(* written or the save fails; the locator of a written file may fail to  *)
(* be built, which withUploadOptions may log                             *)
SettleSave(n) ==
    /\ editAt = "saving"
    /\ n \in saveRunning
    /\ saveRunning' = saveRunning \ {n}
    /\ LET result == retrieveResults[n]
           file == EditFolderFile(workspaceUri, result.element.serviceName,
                                  result.element.searchLocationName,
                                  result.element.element,
                                  result.content.content)
       IN  \E saved \in BOOLEAN, encoded \in BOOLEAN, logged \in BOOLEAN :
              IF ~saved
              THEN /\ saveResults' =
                         [saveResults EXCEPT ![n] = Error(<<"save: failed">>)]
                   /\ UNCHANGED <<savedFiles, editErrorLog>>
              ELSE /\ savedFiles' = savedFiles \cup {file}
                   /\ editErrorLog' =
                         IF ~encoded /\ logged
                         THEN Append(editErrorLog,
                                     UnableToOpen(editElements[n].name))
                         ELSE editErrorLog
                   /\ saveResults' =
                         [saveResults EXCEPT ![n] =
                             IF encoded
                             THEN withUploadOptions(file,
                                      [element |-> result.element.element,
                                       fingerprint |-> result.content.fingerprint,
                                       serviceName |-> result.element.serviceName,
                                       searchLocationName |->
                                           result.element.searchLocationName])
                             ELSE NoResult]
    /\ UNCHANGED <<editAt, editElements, workspaceUri,
                   endevorMaxRequestsNumber, retrieveStarted, retrieveRunning,
                   retrieveCalls, retrieveSettled, responses, retrievedContents, showStarted,
                   showRunning, showResults, shownEditors,
                   uploadVars, commandVars, uriVars>>

(* The saves are awaited until the first of them settles.                *)
SavesSettledFirst ==
    \/ saveRunning = {}
    \/ \E n \in 1..elementsNumber : saveResults[n] # Pending

(* lines 228-255: Promise.all awaits every save                          *)
SavesSettled == saveRunning = {}

(* lines 228, 256-258: every save has settled, the pool of show tasks is *)
(* created                                                               *)
StartShows ==
    /\ editAt = "saving"
    /\ SavesSettled
    /\ editAt' = "showing"
    /\ UNCHANGED <<editElements, workspaceUri, endevorMaxRequestsNumber,
                   retrieveStarted, retrieveRunning, retrieveCalls, retrieveSettled, responses,
                   retrievedContents, saveRunning, saveResults, savedFiles,
                   showStarted, showRunning, showResults, shownEditors,
                   editErrorLog, uploadVars, commandVars, uriVars>>

(* The editors are shown as concurrently as the elements are retrieved.  *)
sequentialShowingPoolSize == endevorMaxRequestsNumber

(* line 257                                                              *)
sequentialShowing == 1

(* An error counts as a locator to show.                                 *)
isUriOrError(value) == value.kind \in {"Uri", "Error"}

(* line 260: the save gave a locator                                     *)
isUri(value) == value.kind = "Uri"

(* lines 258-283: the pool starts the show tasks in the order of the     *)
(* list, one at a time; only the task of a saved element with a locator  *)
(* shows an editor                                                       *)
StartShowTask ==
    /\ editAt = "showing"
    /\ showStarted < elementsNumber
    /\ Cardinality(showRunning) < sequentialShowing
    /\ LET n == showStarted + 1
       IN  /\ showStarted' = n
           /\ showRunning' = showRunning \cup {n}
           /\ shownEditors' = IF isUri(saveResults[n])
                              THEN Append(shownEditors, saveResults[n])
                              ELSE shownEditors
    /\ UNCHANGED <<editAt, editElements, workspaceUri,
                   endevorMaxRequestsNumber, retrieveStarted, retrieveRunning,
                   retrieveCalls, retrieveSettled, responses, retrievedContents, saveRunning,
                   saveResults, savedFiles, showResults, editErrorLog,
                   uploadVars, commandVars, uriVars>>

ShowResults == {Void, Error(<<"show: failed">>)}

(* lines 259-279: a running show task settles                            *)
SettleShowTask(n) ==
    /\ editAt = "showing"
    /\ n \in showRunning
    /\ showRunning' = showRunning \ {n}
    /\ \E showResult \in (IF isUri(saveResults[n]) THEN ShowResults
                          ELSE {saveResults[n]}) :
          showResults' = [showResults EXCEPT
                             ![SettledAt(showResults, n)] = showResult]
    /\ UNCHANGED <<editAt, editElements, workspaceUri,
                   endevorMaxRequestsNumber, retrieveStarted, retrieveRunning,
                   retrieveCalls, retrieveSettled, responses, retrievedContents, saveRunning,
                   saveResults, savedFiles, showStarted, shownEditors,
                   editErrorLog, uploadVars, commandVars, uriVars>>

(* lines 284-293                                                         *)
overallErrors == SelectSeq(showResults, isError)

(* line 295: the names of all the elements the command was called with   *)
elementNames == [n \in 1..elementsNumber |-> editElements[n].name]

(* line 294                                                              *)
ReportsErrors(errors) == Len(errors) > 0

(* lines 283-304: the pool of show tasks has settled; the errors are     *)
(* reported together                                                     *)
ReportOverallErrors ==
    /\ editAt = "showing"
    /\ showStarted = elementsNumber
    /\ showRunning = {}
    /\ editErrorLog' =
          IF ReportsErrors(overallErrors)
          THEN Append(editErrorLog,
                  [summary |-> <<"There were some issues during editing of the elements">>,
                   names |-> elementNames,
                   messages |-> [n \in 1..Len(overallErrors) |->
                                    overallErrors[n].message]])
          ELSE editErrorLog
    /\ editAt' = "done"
    /\ UNCHANGED <<editElements, workspaceUri, endevorMaxRequestsNumber,
                   retrieveStarted, retrieveRunning, retrieveCalls, retrieveSettled, responses,
                   retrievedContents, saveRunning, saveResults, savedFiles,
                   showStarted, showRunning, showResults, shownEditors,
                   uploadVars, commandVars, uriVars>>

EditNext ==
    \/ GetWorkspaceUri
    \/ StartRetrieveTask
    \/ \E n \in 1..elementsNumber : SettleRetrieveTask(n)
    \/ StartSaves
    \/ \E n \in 1..elementsNumber : SettleSave(n)
    \/ StartShows
    \/ StartShowTask
    \/ \E n \in 1..elementsNumber : SettleShowTask(n)
    \/ ReportOverallErrors

EditSpec == EditInit /\ [][EditNext]_vars

(* ------------------------------------------------------------------ *)
(* Observations on the retrieval of elements for editing               *)
(* ------------------------------------------------------------------ *)

EditDone == editAt = "done" /\ workspaceUri # NotDefined

Indexes == 1..elementsNumber

(* the retrieve calls that were made and have not returned               *)
RetrievesInFlight == {n \in retrieveRunning : ~isError(elementUris[n])}

(* the showElementToEdit calls that were made and have not returned      *)
ShowsInFlight == {n \in showRunning : isUri(saveResults[n])}

isRetrieved(value) == value.kind = "ElementWithFingerprint"

InSeq(value, seq) == \E m \in 1..Len(seq) : seq[m] = value

(* the retrieve tasks did not settle in the order of the list            *)
SettledOutOfOrder ==
    \E a, b \in 1..Len(retrieveSettled) :
        a < b /\ retrieveSettled[a] > retrieveSettled[b]

(* ------------------------------------------------------------------ *)
(* C22                                                                 *)
(* ------------------------------------------------------------------ *)

(* C22: while the elements are retrieved, never more retrieve calls are  *)
(* in flight than the configured number of parallel requests.            *)
C22_RetrievesInFlight ==
    editAt = "retrieving" =>
        /\ Cardinality(RetrievesInFlight) <= endevorMaxRequestsNumber
        /\ Cardinality(retrieveRunning) <= endevorMaxRequestsNumber

(* the pool is full while an element still waits, after a task settled   *)
(* out of order                                                          *)
C22_Witness ==
    /\ editAt = "retrieving"
    /\ endevorMaxRequestsNumber = 2
    /\ Cardinality(RetrievesInFlight) = 2
    /\ retrieveSettled = <<2>>
    /\ elementsNumber = MaxElements

(* ------------------------------------------------------------------ *)
(* C23                                                                 *)
(* ------------------------------------------------------------------ *)

(* C23: the result of the retrieve call made for an element is kept at   *)
(* the index of that element, and the file saved and the locator built   *)
(* for an element hold the content and the fingerprint Endevor returned  *)
(* for that element.                                                     *)
C23_ResultsKeptByIndex ==
    \A n \in 1..Len(editElements) :
        /\ retrievedContents[n] = responses[n]
        /\ isRetrieved(retrievedContents[n]) =>
              /\ retrievedContents[n].content = <<editElements[n].name, "content">>
              /\ retrievedContents[n].fingerprint =
                     <<editElements[n].name, "fingerprint">>
        /\ isUri(saveResults[n]) =>
              /\ isRetrieved(responses[n])
              /\ saveResults[n].query.element = editElements[n].name
              /\ saveResults[n].query.fingerprint = responses[n].fingerprint
              /\ saveResults[n].fsPath.element = editElements[n].name
              /\ saveResults[n].fsPath.content = responses[n].content
              /\ saveResults[n].fsPath \in savedFiles

C23_Witness ==
    /\ EditDone
    /\ elementsNumber = MaxElements
    /\ retrieveSettled[1] = MaxElements
    /\ SettledOutOfOrder
    /\ \A n \in Indexes : isUri(saveResults[n])

(* ------------------------------------------------------------------ *)
(* C24                                                                 *)
(* ------------------------------------------------------------------ *)

(* C24: whatever happens to the other elements, an element with a valid  *)
(* locator is retrieved, a retrieved element is saved and a saved        *)
(* element is shown; an element without a valid locator causes no        *)
(* retrieve call and its index holds an error.                           *)
C24_SiblingsIsolated ==
    EditDone =>
        \A n \in Indexes :
            /\ isError(elementUris[n]) =>
                  /\ ~InSeq(n, retrieveCalls)
                  /\ retrievedContents[n] = elementUris[n]
                  /\ showResults[n] = elementUris[n]
            /\ ~isError(elementUris[n]) =>
                  /\ InSeq(n, retrieveCalls)
                  /\ responses[n] \in RetrieveResponses(editElements[n].name)
            /\ isRetrieved(responses[n]) =>
                  \/ saveResults[n] = Error(<<"save: failed">>)
                  \/ /\ saveResults[n] \in {NoResult} \/ isUri(saveResults[n])
                     /\ \E file \in savedFiles :
                           file.element = editElements[n].name
            /\ isUri(saveResults[n]) =>
                  /\ InSeq(saveResults[n], shownEditors)
                  /\ showResults[n] \in ShowResults

(* one element has no valid locator, another one is not retrieved, the   *)
(* last one is retrieved, saved and shown                                *)
C24_Witness ==
    /\ EditDone
    /\ elementsNumber = 3
    /\ isError(elementUris[1])
    /\ responses[2] = Error(<<"retrieve: failed">>)
    /\ showResults[3] = Void
    /\ Len(shownEditors) = 1

(* ------------------------------------------------------------------ *)
(* C25                                                                 *)
(* ------------------------------------------------------------------ *)

(* C25: a file is saved only for an element whose retrieve call          *)
(* succeeded, and an editor is shown only for an element that was        *)
(* retrieved and saved.                                                  *)
C25_SavedAndShownOnlyWhenRetrieved ==
    /\ \A file \in savedFiles :
          \E n \in 1..Len(editElements) :
              /\ file.element = editElements[n].name
              /\ isRetrieved(responses[n])
              /\ file.content = responses[n].content
    /\ \A m \in 1..Len(shownEditors) :
          /\ shownEditors[m].kind = "Uri"
          /\ \E n \in 1..Len(editElements) :
                /\ shownEditors[m] = saveResults[n]
                /\ isRetrieved(responses[n])
                /\ shownEditors[m].fsPath \in savedFiles
    /\ \A n \in 1..Len(editElements) :
          (editAt \in {"saving", "showing"} \/ EditDone) /\ ~isRetrieved(responses[n]) =>
              /\ isError(saveResults[n])
              /\ \A file \in savedFiles : file.element # editElements[n].name

C25_Witness ==
    /\ EditDone
    /\ elementsNumber = 2
    /\ responses[1] = Error(<<"retrieve: failed">>)
    /\ Cardinality(savedFiles) = 1
    /\ Len(shownEditors) = 1

(* ------------------------------------------------------------------ *)
(* C26                                                                 *)
(* ------------------------------------------------------------------ *)

(* the index of the element a locator was built for                      *)
IndexOf(uri) ==
    CHOOSE n \in 1..Len(editElements) : editElements[n].name = uri.query.element

(* C26: at most one showElementToEdit call is in flight, and the editors *)
(* are shown in the order of the list of elements, whatever the order    *)
(* their retrievals settled in.                                          *)
C26_ShownSequentially ==
    /\ Cardinality(ShowsInFlight) <= 1
    /\ Cardinality(showRunning) <= 1
    /\ \A a, b \in 1..Len(shownEditors) :
          a < b => IndexOf(shownEditors[a]) < IndexOf(shownEditors[b])

C26_Witness ==
    /\ elementsNumber = MaxElements
    /\ Len(retrieveSettled) = MaxElements
    /\ retrieveSettled[1] = MaxElements
    /\ retrieveSettled[MaxElements] = 1
    /\ Len(shownEditors) = MaxElements
    /\ Cardinality(ShowsInFlight) = 1

(* ------------------------------------------------------------------ *)
(* C27                                                                 *)
(* ------------------------------------------------------------------ *)

RECURSIVE NamesOfFailed(_)
NamesOfFailed(n) ==
    IF n > elementsNumber THEN <<>>
    ELSE (IF isError(showResults[n]) THEN <<editElements[n].name>> ELSE <<>>)
         \o NamesOfFailed(n + 1)

IsCombinedDiagnostic(entry) ==
    entry.summary = <<"There were some issues during editing of the elements">>

CombinedDiagnostics == SelectSeq(editErrorLog, IsCombinedDiagnostic)

(* C27: after a retrieval in which an element failed exactly one         *)
(* diagnostic is logged, which names the failed elements and gives the   *)
(* message of each failure; when no element failed nothing is logged.    *)
C27_OneDiagnosticNamingTheFailed ==
    EditDone =>
        IF NamesOfFailed(1) = <<>>
        THEN CombinedDiagnostics = <<>>
        ELSE /\ Len(CombinedDiagnostics) = 1
             /\ CombinedDiagnostics[1].names = NamesOfFailed(1)
             /\ CombinedDiagnostics[1].messages =
                    [m \in 1..Len(overallErrors) |-> overallErrors[m].message]


(***************************************************************************)
(* editSingleElement: one element is retrieved, saved into the edit folder *)
(* and shown.  The steps are the awaits of the function; every failure     *)
(* ends the command.                                                       *)
(***************************************************************************)

EditSingleInit ==
    /\ editAt = "editSingleElement"
    /\ editElements \in [1..1 -> UNION {SelectedElement(n) : n \in 1..MaxElements}]
    /\ workspaceUri = NotDefined
    /\ endevorMaxRequestsNumber = 0
    /\ retrieveStarted = 0
    /\ retrieveRunning = {}
    /\ retrieveCalls = <<>>
    /\ retrieveSettled = <<>>
    /\ responses = NoResponses
    /\ retrievedContents = NoResponses
    /\ saveRunning = {}
    /\ saveResults = NoResponses
    /\ savedFiles = {}
    /\ showStarted = 0
    /\ showRunning = {}
    /\ showResults = NoResponses
    /\ shownEditors = <<>>
    /\ editErrorLog = <<>>
    /\ uploadVarsIdle
    /\ commandVarsIdle
    /\ uriVarsIdle

(* What editSingleElement logs for a failed step of the element.         *)
UnableTo(step, name, error) ==
    [summary |-> <<"Unable to", step, "the element", name>>,
     names |-> <<name>>, messages |-> <<error.message>>]

(* lines 49-78: without a workspace, or with a locator that is not the   *)
(* one of a tree element, the command ends with an error logged;         *)
(* otherwise the retrieve call is issued                                 *)
SingleGetWorkspaceUri ==
    /\ editAt = "editSingleElement"
    /\ \E workspace \in Workspaces \cup {NotDefined} :
          LET treeElementUri == fromTreeElementUri(editElements[1].uri)
          IN  IF workspace = NotDefined
              THEN /\ editErrorLog' = Append(editErrorLog,
                          [summary |-> <<"At least one workspace in this project should be opened to edit elements">>,
                           names |-> <<>>, messages |-> <<>>])
                   /\ editAt' = "done"
                   /\ UNCHANGED <<workspaceUri, retrieveCalls>>
              ELSE /\ workspaceUri' = workspace
                   /\ IF isError(treeElementUri)
                      THEN /\ editErrorLog' = Append(editErrorLog,
                                  UnableTo("edit", editElements[1].name,
                                           treeElementUri))
                           /\ editAt' = "done"
                           /\ UNCHANGED retrieveCalls
                      ELSE /\ retrieveCalls' = Append(retrieveCalls, 1)
                           /\ editAt' = "retrieveElementWithFingerprint"
                           /\ UNCHANGED editErrorLog
    /\ UNCHANGED <<editElements, endevorMaxRequestsNumber, retrieveStarted,
                   retrieveRunning, retrieveSettled, responses,
                   retrievedContents, saveRunning, saveResults, savedFiles,
                   showStarted, showRunning, showResults, shownEditors,
                   uploadVars, commandVars, uriVars>>

(* lines 72-96: the retrieve call returns; an error is logged and ends   *)
(* the command, otherwise the save is started                            *)
SingleRetrieved ==
    /\ editAt = "retrieveElementWithFingerprint"
    /\ \E retrieved \in
            RetrieveResponsesOf(fromTreeElementUri(editElements[1].uri).element,
                                Fingerprints) :
          /\ responses' = [responses EXCEPT ![1] = retrieved]
          /\ IF isError(retrieved)
             THEN /\ editErrorLog' = Append(editErrorLog,
                         UnableTo("retrieve", editElements[1].name,
                                  retrieved))
                  /\ editAt' = "done"
             ELSE /\ editAt' = "saveIntoEditFolder"
                  /\ UNCHANGED editErrorLog
    /\ UNCHANGED <<editElements, workspaceUri, endevorMaxRequestsNumber,
                   retrieveStarted, retrieveRunning, retrieveCalls,
                   retrieveSettled, retrievedContents, saveRunning,
                   saveResults, savedFiles, showStarted, showRunning,
                   showResults, shownEditors, uploadVars, commandVars,
                   uriVars>>

(* lines 93-116: the save returns; an error is logged and ends the       *)
(* command; with the file written the locator of the edited file is      *)
(* built, the command returns if there is none, otherwise the editor is  *)
(* asked for                                                             *)
SingleSaved ==
    /\ editAt = "saveIntoEditFolder"
    /\ LET treeElementUri == fromTreeElementUri(editElements[1].uri)
           retrieved == responses[1]
           file == EditFolderFile(workspaceUri, treeElementUri.serviceName,
                                  treeElementUri.searchLocationName,
                                  treeElementUri.element, retrieved.content)
       IN  \E saved \in BOOLEAN, encoded \in BOOLEAN, logged \in BOOLEAN :
              IF ~saved
              THEN /\ saveResults' =
                         [saveResults EXCEPT ![1] = Error(<<"save: failed">>)]
                   /\ editErrorLog' = Append(editErrorLog,
                          UnableTo("save", editElements[1].name,
                                   Error(<<"save: failed">>)))
                   /\ editAt' = "done"
                   /\ UNCHANGED <<savedFiles, shownEditors>>
              ELSE /\ savedFiles' = savedFiles \cup {file}
                   /\ IF ~encoded
                      THEN /\ saveResults' = [saveResults EXCEPT ![1] = NoResult]
                           /\ editErrorLog' =
                                 IF logged
                                 THEN Append(editErrorLog,
                                             UnableToOpen(editElements[1].name))
                                 ELSE editErrorLog
                           /\ editAt' = "done"
                           /\ UNCHANGED shownEditors
                      ELSE /\ saveResults' =
                                 [saveResults EXCEPT ![1] =
                                     withUploadOptions(file,
                                         [element |-> treeElementUri.element,
                                          fingerprint |-> retrieved.fingerprint,
                                          serviceName |-> treeElementUri.serviceName,
                                          searchLocationName |->
                                              treeElementUri.searchLocationName])]
                           /\ shownEditors' = Append(shownEditors, saveResults'[1])
                           /\ editAt' = "showElementToEdit"
                           /\ UNCHANGED editErrorLog
    /\ UNCHANGED <<editElements, workspaceUri, endevorMaxRequestsNumber,
                   retrieveStarted, retrieveRunning, retrieveCalls,
                   retrieveSettled, responses, retrievedContents, saveRunning,
                   showStarted, showRunning, showResults, uploadVars,
                   commandVars, uriVars>>

(* lines 116-135: showElementToEdit returns; an error is logged          *)
SingleShown ==
    /\ editAt = "showElementToEdit"
    /\ \E showResult \in ShowResults :
          /\ showResults' = [showResults EXCEPT ![1] = showResult]
          /\ editErrorLog' =
                IF isError(showResult)
                THEN Append(editErrorLog,
                            UnableTo("open", editElements[1].name, showResult))
                ELSE editErrorLog
    /\ editAt' = "done"
    /\ UNCHANGED <<editElements, workspaceUri, endevorMaxRequestsNumber,
                   retrieveStarted, retrieveRunning, retrieveCalls,
                   retrieveSettled, responses, retrievedContents, saveRunning,
                   saveResults, savedFiles, showStarted, showRunning,
                   shownEditors, uploadVars, commandVars, uriVars>>

EditSingleNext ==
    \/ SingleGetWorkspaceUri
    \/ SingleRetrieved
    \/ SingleSaved
    \/ SingleShown

EditSingleSpec == EditSingleInit /\ [][EditSingleNext]_vars

(* The command has returned without having shown the element.            *)
EditSingleFailed == editAt = "done" /\ showResults[1] # Void

(* The editors showElementToEdit has opened.                             *)
OpenedEditors == IF showResults[1] = Void THEN shownEditors ELSE <<>>

(* C28: when editSingleElement fails (no workspace, undecodable locator, *)
(* retrieve error, save error, no locator for the saved file, editor     *)
(* not opened) an error has been logged, no file has been written and no *)
(* editor has been opened.                                               *)
C28_FailureLeavesNothing ==
    EditSingleFailed =>
        /\ editErrorLog # <<>>
        /\ savedFiles = {}
        /\ OpenedEditors = <<>>


(***************************************************************************)
(* The compared element locator (uri/comparedElementUri.ts).               *)
(* A JavaScript object is the sequence of its members in insertion order;  *)
(* a member of a nested object is written with the name of the member it   *)
(* belongs to (sub is "" for a member that is not nested).  JSON text and  *)
(* percent-encoded text are values of their own, so that serialising,      *)
(* parsing, encoding and decoding are what they do in the code.            *)
(***************************************************************************)

Member(name, sub, value) == [name |-> name, sub |-> sub, value |-> value]

Object(members) == [kind |-> "object", members |-> members]

Null == [kind |-> "null", members |-> <<>>]

(* An exception that leaves the function.                                *)
Thrown(name) == [kind |-> name, members |-> <<>>]

isThrown(value) == value.kind \in {"URIError", "SyntaxError", "TypeError"}

isObject(value) == value.kind = "object"

JSONText(members) == [kind |-> "json", members |-> members]

NullText == [kind |-> "json null", members |-> <<>>]

NotJSONText == [kind |-> "text", members |-> <<>>]

(* A text with a percent sign that starts no escape sequence.            *)
MalformedText == [kind |-> "malformed", members |-> <<>>]

IsDefined(member) == member.value # NotDefined

(* JSON.stringify: the members in their order, those whose value is      *)
(* undefined left out                                                    *)
JSONstringify(value) == JSONText(SelectSeq(value.members, IsDefined))

(* JSON.parse                                                            *)
JSONparse(text) ==
    CASE text.kind = "json" -> Object(text.members)
      [] text.kind = "json null" -> Null
      [] OTHER -> Thrown("SyntaxError")

encodeURIComponent(text) == [kind |-> "percent-encoded", text |-> text]

(* decodeURIComponent: a text without escape sequences is left as it is  *)
decodeURIComponent(text) ==
    CASE text.kind = "percent-encoded" -> text.text
      [] text.kind = "malformed" -> Thrown("URIError")
      [] OTHER -> text

FILE == "file"

TREE_ELEMENT == "e4eElement"

EDITED_ELEMENT == "edited-element"

COMPARED_ELEMENT == "compared-element"

(* The members of the query in the order toComparedElementUri writes     *)
(* them after the type.                                                  *)
SerializedMembers ==
    <<"service", "serviceName", "element", "fingerprint", "searchLocation",
      "searchLocationName", "remoteVersionTempFilePath",
      "uploadChangeControlValue">>

SerializedMembersWithoutFingerprint ==
    <<"service", "serviceName", "element", "searchLocation",
      "searchLocationName", "remoteVersionTempFilePath",
      "uploadChangeControlValue">>

(* The member of an object, with its nested members.                     *)
Destructured(object, name) ==
    LET Named(member) == member.name = name
    IN  SelectSeq(object.members, Named)

RECURSIVE MembersOf(_, _)
MembersOf(object, names) ==
    IF names = <<>> THEN <<>>
    ELSE Destructured(object, Head(names)) \o MembersOf(object, Tail(names))

Uri(scheme, path, query) == [scheme |-> scheme, path |-> path, query |-> query]

(* The locator is written without the fingerprint.                       *)
toComparedElementUriWithoutFingerprint(elementFileSystemPath, query) ==
    Uri(FILE, elementFileSystemPath, encodeURIComponent(JSONstringify(Object(<<Member("type", "", COMPARED_ELEMENT)>> \o MembersOf(query, SerializedMembersWithoutFingerprint)))))

(* toComparedElementUri, lines 21-54                                     *)
toComparedElementUri(elementFileSystemPath, query) ==
    Uri(FILE, elementFileSystemPath,
        encodeURIComponent(JSONstringify(
            Object(<<Member("type", "", COMPARED_ELEMENT)>>
                   \o MembersOf(query, SerializedMembers)))))

(* parsedQuery.type, line 76                                             *)
TypeOf(object) ==
    LET type == Destructured(object, "type")
    IN  IF type = <<>> THEN NotDefined ELSE type[Len(type)].value

Validation(valid, message) ==
    [kind |-> "validation", valid |-> valid, message |-> message]

SchemeIsIncorrect == "Uri scheme is incorrect for compared elements"

NoValidQuery == "Uri has no valid query for compared elements to parse"

QueryTypeIsIncorrect == "Uri query type is incorrect for compared elements"

(* isComparedElementUri, lines 56-91: the query is decoded outside the   *)
(* try block and the type is read from whatever JSON.parse returned      *)
isComparedElementUri(uri) ==
    IF uri.scheme = FILE
    THEN LET decoded == decodeURIComponent(uri.query)
             parsedQuery == JSONparse(decoded)
         IN  IF isThrown(decoded) THEN decoded
             ELSE IF isThrown(parsedQuery)
             THEN Validation(FALSE, <<NoValidQuery, decoded.kind>>)
             ELSE IF parsedQuery = Null THEN Thrown("TypeError")
             ELSE IF TypeOf(parsedQuery) = COMPARED_ELEMENT
             THEN Validation(TRUE, <<>>)
             ELSE Validation(FALSE, <<QueryTypeIsIncorrect,
                                      TypeOf(parsedQuery),
                                      "but should be", COMPARED_ELEMENT>>)
    ELSE Validation(FALSE, <<SchemeIsIncorrect, uri.scheme,
                             "but should be", FILE>>)

(* fromComparedElementUri, lines 93-101                                  *)
fromComparedElementUri(uri) ==
    LET uriValidationResult == isComparedElementUri(uri)
    IN  IF isThrown(uriValidationResult) THEN uriValidationResult
        ELSE IF uriValidationResult.valid
        THEN JSONparse(decodeURIComponent(uri.query))
        ELSE Error(uriValidationResult.message)

(* ------------------------------------------------------------------ *)
(* The locators and the queries at hand                                *)
(* ------------------------------------------------------------------ *)

Paths == {"/temp/local/element.cbl", "/temp/remote/element.cbl"}

(* The value of an optional member of the search location: a value, the  *)
(* member set to undefined, or no member.                                *)
OptionalCcids == {"CCID", NotDefined, "no member"}

SearchLocationOf(ccid) ==
    <<Member("searchLocation", "instance", "INST")>>
    \o (IF ccid = "no member" THEN <<>>
        ELSE <<Member("searchLocation", "ccid", ccid)>>)

(* A query, its members in the order of ComparedElementUriQuery.         *)
ComparedElementUriQuery(fingerprint, ccid, comment) ==
    Object(<<Member("serviceName", "", "serviceName"),
             Member("searchLocationName", "", "searchLocationName"),
             Member("service", "", "service")>>
           \o SearchLocationOf(ccid)
           \o <<Member("element", "", "ELM1"),
                Member("fingerprint", "", fingerprint),
                Member("uploadChangeControlValue", "ccid", "CCID"),
                Member("uploadChangeControlValue", "comment", comment),
                Member("remoteVersionTempFilePath", "", "/temp/remote/element.cbl")>>)

Queries ==
    {ComparedElementUriQuery(fingerprint, ccid, comment) :
        fingerprint \in Fingerprints, ccid \in OptionalCcids,
        comment \in {"comment", "other comment"}}

(* Queries of locators that toComparedElementUri did not write.          *)
EditedElementText ==
    JSONText(<<Member("type", "", EDITED_ELEMENT),
               Member("element", "", "ELM1"),
               Member("fingerprint", "", "fp1")>>)

UntypedText ==
    JSONText(<<Member("element", "", "ELM1"),
               Member("fingerprint", "", "fp1")>>)

TypeLastText ==
    JSONText(<<Member("element", "", "ELM1"),
               Member("fingerprint", "", "fp1"),
               Member("type", "", COMPARED_ELEMENT)>>)

ForeignQueries ==
    {MalformedText, NotJSONText, NullText, encodeURIComponent(NotJSONText),
     encodeURIComponent(NullText), encodeURIComponent(EditedElementText),
     encodeURIComponent(UntypedText), encodeURIComponent(TypeLastText),
     TypeLastText}

ForeignUris ==
    {Uri(scheme, path, query) :
        scheme \in {FILE, TREE_ELEMENT}, path \in Paths,
        query \in ForeignQueries}

NoUri == Uri(NotDefined, NotDefined, NotJSONText)

UriInit ==
    /\ uriAt = "start"
    /\ uriPath = NotDefined
    /\ uriQuery = Null
    /\ comparedUri = NoUri
    /\ decodedQuery = Null
    /\ reencodedUri = NoUri
    /\ discardCalls = <<>>
    /\ uploadVarsIdle
    /\ commandVarsIdle
    /\ editVarsIdle

(* A locator is written for a file path and a query.                     *)
ToComparedElementUri ==
    /\ uriAt = "start"
    /\ \E path \in Paths, query \in Queries :
          /\ uriPath' = path
          /\ uriQuery' = query
          /\ comparedUri' = toComparedElementUri(path, query)
    /\ uriAt' = "encoded"
    /\ UNCHANGED <<decodedQuery, reencodedUri, discardCalls, uploadVars, commandVars,
                   editVars>>

(* The locator of some other document is at hand.                        *)
ReceiveUri ==
    /\ uriAt = "start"
    /\ comparedUri' \in ForeignUris
    /\ uriAt' = "received"
    /\ UNCHANGED <<uriPath, uriQuery, decodedQuery, reencodedUri, discardCalls,
                   uploadVars, commandVars, editVars>>

(* The locator at hand is read.                                          *)
FromComparedElementUri ==
    /\ uriAt \in {"encoded", "received"}
    /\ decodedQuery' = fromComparedElementUri(comparedUri)
    /\ uriAt' = "decoded"
    /\ UNCHANGED <<uriPath, uriQuery, comparedUri, reencodedUri, discardCalls,
                   uploadVars, commandVars, editVars>>

(* The query that was read is written again, for the path of the         *)
(* locator it was read from.                                             *)
EncodeAgain ==
    /\ uriAt = "decoded"
    /\ isObject(decodedQuery)
    /\ reencodedUri' = toComparedElementUri(comparedUri.path, decodedQuery)
    /\ uriAt' = "reencoded"
    /\ UNCHANGED <<uriPath, uriQuery, comparedUri, decodedQuery, discardCalls,
                   uploadVars, commandVars, editVars>>

UriNext ==
    \/ ToComparedElementUri
    \/ ReceiveUri
    \/ FromComparedElementUri
    \/ EncodeAgain

UriSpec == UriInit /\ [][UriNext]_vars

(* ------------------------------------------------------------------ *)
(* C29, C30                                                            *)
(* ------------------------------------------------------------------ *)

MemberSet(object) == {object.members[n] : n \in 1..Len(object.members)}

Decoded == uriAt \in {"decoded", "reencoded"}

(* The locator at hand was written by toComparedElementUri.              *)
FromEncoder == isObject(uriQuery)

(* C29 as stated: reading the locator written for (p, q) succeeds and    *)
(* gives exactly q, and writing again the query read from a locator that *)
(* is accepted gives the same locator.                                   *)
C29_Original ==
    /\ Decoded /\ FromEncoder =>
          /\ isObject(decodedQuery)
          /\ MemberSet(decodedQuery) = MemberSet(uriQuery)
    /\ uriAt = "reencoded" => reencodedUri = comparedUri

(* C29, amended: reading the locator written for (p, q) succeeds and     *)
(* gives the members of q that are defined, each with its value, and the *)
(* type of the locator; writing the query that was read again, for the   *)
(* path of the locator, gives the same locator when the locator was      *)
(* written by toComparedElementUri.                                      *)
C29_RoundTripOfWrittenLocators ==
    /\ Decoded /\ FromEncoder =>
          /\ isObject(decodedQuery)
          /\ MemberSet(decodedQuery) =
                {Member("type", "", COMPARED_ELEMENT)}
                \cup {member \in MemberSet(uriQuery) : IsDefined(member)}
          /\ Len(decodedQuery.members) = Cardinality(MemberSet(decodedQuery))
    /\ uriAt = "reencoded" /\ FromEncoder => reencodedUri = comparedUri

C29_Witness ==
    /\ uriAt = "reencoded"
    /\ FromEncoder
    /\ \E member \in MemberSet(uriQuery) : ~IsDefined(member)
    /\ reencodedUri = comparedUri
    /\ comparedUri.path = uriPath

(* The query of the locator can be decoded and parsed.                   *)
QueryParses(query) ==
    \/ query.kind \in {"json", "json null"}
    \/ /\ query.kind = "percent-encoded"
       /\ query.text.kind \in {"json", "json null"}

(* The type the parsed query carries.                                    *)
QueryKind(query) ==
    LET text == IF query.kind = "percent-encoded" THEN query.text ELSE query
    IN  IF text.kind = "json" THEN TypeOf(text) ELSE NotDefined

(* C30: reading a locator succeeds exactly when its scheme is file, its  *)
(* query parses and the type of the query is compared-element; a wrong   *)
(* scheme, a query that does not parse and a wrong type each give an     *)
(* Error, with a message of its own, the scheme being looked at first    *)
(* and the type last.                                                    *)
C30_DecodeSucceedsOrReturnsError ==
    Decoded =>
        LET schemeOk == comparedUri.scheme = FILE
            parses == QueryParses(comparedUri.query)
            kindOk == QueryKind(comparedUri.query) = COMPARED_ELEMENT
        IN  /\ isObject(decodedQuery) <=> (schemeOk /\ parses /\ kindOk)
            /\ ~schemeOk =>
                  /\ decodedQuery.kind = "Error"
                  /\ decodedQuery.message[1] = SchemeIsIncorrect
            /\ schemeOk /\ ~parses =>
                  /\ decodedQuery.kind = "Error"
                  /\ decodedQuery.message[1] = NoValidQuery
            /\ schemeOk /\ parses /\ ~kindOk =>
                  /\ decodedQuery.kind = "Error"
                  /\ decodedQuery.message[1] = QueryTypeIsIncorrect


(* ------------------------------------------------------------------ *)
(* C32                                                                 *)
(* ------------------------------------------------------------------ *)

IsSuccessfulSignOut(call) == IsSignOut(call) /\ call.result = Void

SuccessfulSignOuts == SelectSeq(calls, IsSuccessfulSignOut)

(* The dispatch that follows a successful sign out is still to come.     *)
SignedOutPending ==
    IF pc = "updateTreeAfterSuccessfulSignout" THEN 1 ELSE 0

(* C32: ElementSignedOut is dispatched once for every signOut or         *)
(* override signOut call that succeeded and for nothing else; the        *)
(* dispatch comes right after the successful call, before the next       *)
(* update call is issued.                                                *)
C32_SignedOutOncePerSuccessfulSignOut ==
    LogsComplete =>
        /\ Len(SignedOutEvents) + SignedOutPending = Len(SuccessfulSignOuts)
        /\ SignedOutPending = 1 =>
              Len(calls) >= 1 /\ IsSuccessfulSignOut(LastCall)
        /\ pc \in {"readEditedElementContent", "updateElement"} =>
              Len(SignedOutEvents) = Len(SuccessfulSignOuts)

C32_Witness ==
    /\ Done
    /\ LogsComplete
    /\ Len(SignedOutEvents) = 1
    /\ Len(PlainSignOutCalls) = 1
    /\ Len(OverrideSignOutCalls) = 1
    /\ Len(UpdateCalls) = 2

(* ------------------------------------------------------------------ *)
(* C33                                                                 *)
(* ------------------------------------------------------------------ *)

OverrideSignOutFailed ==
    /\ LogsComplete
    /\ Len(calls) >= 1
    /\ IsOverrideSignOut(LastCall)
    /\ isError(LastCall.result)

(* C33: when the override signOut call fails the command ends: no        *)
(* prompt and no remote call follow, nothing is dispatched, and the      *)
(* error returned wraps the message of the failed override signOut call. *)
C33_OverrideFailureTerminates ==
    /\ [](OverrideSignOutFailed =>
            /\ pc \in {"reopenEditSession", "done"}
            /\ uploadResult =
                  Error(<<"Unable to perform an override signout of the element because of error">>
                        \o LastCall.result.message))
    /\ [][OverrideSignOutFailed =>
            calls' = calls /\ events' = events /\ prompts' = prompts]_vars

(* ------------------------------------------------------------------ *)
(* C34                                                                 *)
(* ------------------------------------------------------------------ *)

PlainSignOutFailed ==
    /\ LogsComplete
    /\ Len(calls) >= 1
    /\ IsPlainSignOut(LastCall)
    /\ isError(LastCall.result)
    /\ ~isSignoutError(LastCall.result)

(* C34: when the plain signOut call fails with an error that is not a    *)
(* SignoutError the command ends with an error that wraps the failure:   *)
(* the override dialog is not shown, no remote call follows and nothing  *)
(* is dispatched.                                                        *)
C34_PlainSignOutFailureTerminates ==
    /\ [](PlainSignOutFailed =>
            /\ pc \in {"reopenEditSession", "done"}
            /\ uploadResult =
                  Error(<<"Unable to sign out the element because of error">>
                        \o LastCall.result.message)
            /\ prompts[Len(prompts)] = "askToSignOutElements")
    /\ [][PlainSignOutFailed =>
            calls' = calls /\ events' = events /\ prompts' = prompts]_vars

C34_Witness ==
    /\ Done
    /\ PlainSignOutFailed
    /\ Len(UpdateCalls) = 1
    /\ events = <<>>

(* ------------------------------------------------------------------ *)
(* C35                                                                 *)
(* ------------------------------------------------------------------ *)

RemoveFailed == Logged(<<"Unable to remove the file">>)

(* C35: after a successful update the temp file is removed before the    *)
(* update is dispatched; when the removal fails the failure is logged    *)
(* and the update is dispatched all the same, once.                      *)
C35_RemoveFailureNotFatal ==
    /\ Len(UpdatedEvents) >= 1 => deleteCalls = 1
    /\ pc = "updateTreeAfterSuccessfulUpload" =>
          deleteCalls = 1 /\ UpdatedEvents = <<>>
    /\ (deleteCalls = 1 /\ tempFileExists) => RemoveFailed
    /\ (Done /\ UploadSucceeded) =>
          /\ deleteCalls = 1
          /\ Len(UpdatedEvents) = 1

C35_Witness ==
    /\ Done
    /\ UploadSucceeded
    /\ tempFileExists
    /\ RemoveFailed
    /\ Len(UpdatedEvents) = 1

(* ------------------------------------------------------------------ *)
(* C36                                                                 *)
(* ------------------------------------------------------------------ *)

(* C36: the automatic sign out setting changes only in the step in which *)
(* the user picks the automatic sign out in the sign out dialog, and     *)
(* then to on; when the automatic sign out was picked the sign out call  *)
(* comes next whether the setting was updated or not.                    *)
C36_AutomaticSignOutSetting ==
    /\ [][automaticSignOut' # automaticSignOut =>
            /\ pc = "askToSignOutElements"
            /\ signOut'.automaticSignOut
            /\ automaticSignOut' = TRUE]_vars
    /\ [][(pc = "askToSignOutElements" /\ signOut'.automaticSignOut) =>
            pc' = "signOutElement"]_vars
    /\ [](signOut.automaticSignOut => pc = "signOutElement")

(* The automatic sign out was picked, the setting could not be updated   *)
(* and the sign out call is made.                                        *)
C36_Witness ==
    /\ pc = "signOutElement"
    /\ signOut.automaticSignOut
    /\ ~signOut.signOutElements
    /\ ~automaticSignOut

(* ------------------------------------------------------------------ *)
(* C37                                                                 *)
(* ------------------------------------------------------------------ *)

(* C37: when the locator of the edited file cannot be decoded the        *)
(* command logs the error and returns: no dialog is shown, no remote     *)
(* call is made, the editor stays open, no file is deleted or written    *)
(* and nothing is dispatched.                                            *)
C37_UndecodableLocator ==
    ~elementUri.valid =>
        /\ pc \in {"uploadElementCommand", "done"}
        /\ Done => errorLog =
                      <<<<"Unable to upload the selected element to Endevor">>>>
        /\ prompts = <<>>
        /\ calls = <<>>
        /\ compareCalls = <<>>
        /\ editorOpen
        /\ reopenCalls = 0
        /\ tempFileExists
        /\ deleteCalls = 0
        /\ localVersionFile = NoFile
        /\ events = <<>>

C37_Witness == Done /\ ~elementUri.valid /\ errorLog # <<>>


(* ------------------------------------------------------------------ *)
(* C38, C39                                                            *)
(* ------------------------------------------------------------------ *)

SaveBegun == saveRunning # {} \/ savedFiles # {}

ShowBegun == showStarted > 0 \/ showRunning # {} \/ shownEditors # <<>>

(* C38: no element is saved before every retrieve of the batch has       *)
(* settled and no editor is shown before every save of the batch has     *)
(* settled.                                                              *)
C38_PhasesSeparated ==
    /\ SaveBegun =>
          /\ retrieveRunning = {}
          /\ Len(retrieveSettled) = elementsNumber
          /\ \A n \in Indexes : retrievedContents[n] # Pending
    /\ ShowBegun =>
          /\ saveRunning = {}
          /\ \A n \in Indexes : saveResults[n] # Pending

C38_Witness ==
    /\ EditDone
    /\ Len(shownEditors) >= 2
    /\ Cardinality(savedFiles) >= 2
    /\ SettledOutOfOrder

(* lines 284-293: a result that is no error is counted as a success      *)
CountedAsSuccess(n) == ~isError(showResults[n])

Opened(n) == showResults[n] = Void

(* C39: every element of the batch that was not opened in an editor has  *)
(* its error in the combined diagnostic and is not counted as a success. *)
C39_NoElementDropped ==
    EditDone =>
        \A n \in Indexes :
            ~Opened(n) =>
                /\ ~CountedAsSuccess(n)
                /\ Len(CombinedDiagnostics) = 1
                /\ \E m \in 1..Len(overallErrors) :
                      overallErrors[m] = showResults[n]

(* ------------------------------------------------------------------ *)
(* C40                                                                 *)
(* ------------------------------------------------------------------ *)

(* C40: fromComparedElementUri gives a query or an Error for every       *)
(* locator; it never throws.                                             *)
C40_DecodeIsTotal ==
    Decoded => (isObject(decodedQuery) \/ decodedQuery.kind = "Error")


(***************************************************************************)
(* Accepting the changes of a compared element (the command                *)
(* applyDiffEditorChanges, as its test and the description of the conflict *)
(* session give it).  The locator of the active diff editor is read, the   *)
(* local version of the element is uploaded with what the locator stores,  *)
(* the compare session is discarded and the update is dispatched.          *)
(***************************************************************************)

(* The value of a member of an object, undefined when it has none.       *)
ValueOf(object, name, sub) ==
    LET Named(member) == member.name = name /\ member.sub = sub
        found == SelectSeq(object.members, Named)
    IN  IF found = <<>> THEN NotDefined ELSE found[Len(found)].value

(* The change control value a compared element locator stores.           *)
ComparedChangeControlValue(query) ==
    [ccid |-> ValueOf(query, "uploadChangeControlValue", "ccid"),
     comment |-> ValueOf(query, "uploadChangeControlValue", "comment")]

(* The update event for the element of a compared element locator.       *)
ComparedElementUpdated(query) ==
    ElementUpdated(ValueOf(query, "serviceName", ""),
                   ValueOf(query, "service", ""),
                   ValueOf(query, "searchLocationName", ""),
                   Destructured(query, "searchLocation"),
                   <<ValueOf(query, "element", "")>>)

UnableToApplyChanges ==
    "Unable to apply the changes of the compared element because of error"

(* The locator of the active diff editor is read.                        *)
ApplyDiffEditorChanges ==
    /\ uriAt \in {"encoded", "received"}
    /\ LET uriParams == fromComparedElementUri(comparedUri)
       IN  /\ decodedQuery' = uriParams
           /\ uriAt' = IF isThrown(uriParams) THEN "thrown"
                       ELSE IF isObject(uriParams) THEN "getFileContent"
                       ELSE "done"
           /\ errorLog' = IF isThrown(uriParams) \/ isObject(uriParams)
                          THEN errorLog
                          ELSE Append(errorLog,
                                   <<UnableToApplyChanges>> \o uriParams.message)
    /\ UNCHANGED <<uriPath, uriQuery, comparedUri, reencodedUri,
                   discardCalls, commandVars, editVars, pc, elementUri,
                   uploadLocation, uploadChangeControlValue, content,
                   uploadResult, signOutResult, signOut, editorOpen,
                   tempFileExists, deleteCalls, reopenCalls,
                   localVersionFile, automaticSignOut, calls, compareCalls,
                   events, prompts>>

(* The content of the local version is read from the file of the locator *)
GetFileContent ==
    /\ uriAt = "getFileContent"
    /\ content' \in Contents
    /\ uriAt' = "updateElement"
    /\ UNCHANGED <<uriPath, uriQuery, comparedUri, decodedQuery,
                   reencodedUri, discardCalls, commandVars, editVars, pc,
                   elementUri, uploadLocation, uploadChangeControlValue,
                   uploadResult, signOutResult, signOut, editorOpen,
                   tempFileExists, deleteCalls, reopenCalls,
                   localVersionFile, automaticSignOut, calls, compareCalls,
                   events, prompts, errorLog>>

(* The local version is uploaded with the fingerprint and the change     *)
(* control value of the locator.                                         *)
UploadComparedElement ==
    /\ uriAt = "updateElement"
    /\ \E result \in UpdateResults :
          /\ calls' = Record(calls,
                 RemoteCall("updateElement",
                            ValueOf(decodedQuery, "element", ""),
                            ComparedChangeControlValue(decodedQuery),
                            ValueOf(decodedQuery, "fingerprint", ""),
                            content, result))
          /\ uploadResult' = result
          /\ IF isError(result)
             THEN /\ errorLog' = Append(errorLog,
                         <<UnableToApplyChanges>> \o result.message)
                  /\ uriAt' = "done"
             ELSE /\ uriAt' = "discardEditedElementChanges"
                  /\ UNCHANGED errorLog
    /\ UNCHANGED <<uriPath, uriQuery, comparedUri, decodedQuery,
                   reencodedUri, discardCalls, commandVars, editVars, pc,
                   elementUri, uploadLocation, uploadChangeControlValue,
                   content, signOutResult, signOut, editorOpen,
                   tempFileExists, deleteCalls, reopenCalls,
                   localVersionFile, automaticSignOut, compareCalls, events,
                   prompts>>

(* The compare session is closed and the update is dispatched.           *)
DiscardEditedElementChanges ==
    /\ uriAt = "discardEditedElementChanges"
    /\ discardCalls' = Append(discardCalls, comparedUri)
    /\ events' = dispatch(events, ComparedElementUpdated(decodedQuery))
    /\ uriAt' = "done"
    /\ UNCHANGED <<uriPath, uriQuery, comparedUri, decodedQuery,
                   reencodedUri, commandVars, editVars, pc, elementUri,
                   uploadLocation, uploadChangeControlValue, content,
                   uploadResult, signOutResult, signOut, editorOpen,
                   tempFileExists, deleteCalls, reopenCalls,
                   localVersionFile, automaticSignOut, calls, compareCalls,
                   prompts, errorLog>>

AcceptNext ==
    \/ ToComparedElementUri
    \/ ReceiveUri
    \/ ApplyDiffEditorChanges
    \/ GetFileContent
    \/ UploadComparedElement
    \/ DiscardEditedElementChanges

AcceptSpec == UriInit /\ [][AcceptNext]_vars

(* ------------------------------------------------------------------ *)
(* C31                                                                 *)
(* ------------------------------------------------------------------ *)

(* The changes of a conflict session were accepted and the command has   *)
(* returned.                                                             *)
ChangesAccepted == uriAt = "done" /\ FromEncoder

(* The query the session was created with; a member set to undefined is *)
(* no member.                                                            *)
SessionQuery == Object(SelectSeq(uriQuery.members, IsDefined))

=============================================================================
